---- MODULE Spec2Model ----
(***************************************************************************)
(* A model of the Telia front end: the chained symbol table (Scope), the   *)
(* recursive-descent declaration/statement parser and the precedence       *)
(* climbing expression parser.                                             *)
(*                                                                         *)
(* Every parsing function of the source is an operator of the same name.   *)
(* It takes the parser's mutable state st (lexer position, diagnostics     *)
(* collector, scope arena) and returns [st, val, err]: the state it        *)
(* leaves, the value it returns and the error it returns (NoErr for nil).  *)
(***************************************************************************)
EXTENDS Integers, Sequences, FiniteSets, TLC

VARIABLES
    scopes,      \* the arena of Scope objects: scopes[i] = [parent, nodes]
    ret,         \* what the last operation returned to its caller
    lex,         \* p.lex: the token stream of the file being parsed
    pos,         \* p.lex's cursor: index of the token Peek returns
    collector,   \* p.collector: the diagnostics recorded so far
    moduleScope, \* p.moduleScope: scope (arena index) of the current module
    pc,          \* where the file parse stands: "idle", "nodes", "done",
                 \* "exited" (log.Fatal), "looping" (it never returns)
    body,        \* the nodes parseFileNodes has collected so far
    ghost,       \* history of the parse, read only by the properties
    input        \* the source text lex was made from, as its structure

vars == <<scopes, ret, lex, pos, collector, moduleScope, pc, body, ghost, input>>

-----------------------------------------------------------------------------
(* Bounds of the model *)

MaxScopes == 2

\* Longest expression (in tokens) handed to ParseExprFrom
MaxExprLen == 5

\* Most items (parameters or ellipses) of a parameter list
MaxParams == 3

\* Most names, and most initializers, of a variable statement
MaxVars == 2

\* Most declarations of a file before the one that is edited
MaxDeclsBefore == 1

\* Longest expression (in tokens) with field accesses
MaxAccessLen == 5

\* Most entries of the root directory before the one that is varied
MaxEntriesBefore == 1

\* Most entries of a subdirectory
MaxSubEntries == 2

Names == {"a", "b"}

Values == {1, 2}

-----------------------------------------------------------------------------
(* Error values.  A Go error is compared by identity: a package-level      *)
(* errors.New value is identified by its variable (ptr), a value made by   *)
(* fmt.Errorf is a fresh object (ptr = "Errorf") with its text and         *)
(* argument.                                                               *)

NoErr == [ptr |-> "nil", fmt |-> "", args |-> <<>>]

SYMBOL_ALREADY_DEFINED_ON_SCOPE ==
    [ptr |-> "SYMBOL_ALREADY_DEFINED_ON_SCOPE",
     fmt |-> "symbol already defined on scope", args |-> <<>>]

SYMBOL_NOT_FOUND_ON_SCOPE ==
    [ptr |-> "SYMBOL_NOT_FOUND_ON_SCOPE",
     fmt |-> "symbol not found on scope", args |-> <<>>]

\* diagnostics.COMPILER_ERROR_FOUND, the "already reported" sentinel
COMPILER_ERROR_FOUND ==
    [ptr |-> "COMPILER_ERROR_FOUND", fmt |-> "compiler error found", args |-> <<>>]

\* fmt.Errorf(format, args...): a new error object; args are strings
Errorf(format, args) == [ptr |-> "Errorf", fmt |-> format, args |-> args]

-----------------------------------------------------------------------------
(* Scope: a mapping name -> value with a link to an optional parent.       *)
(* parent = 0 is the nil parent.                                           *)

NilScope == 0

EmptyNodes == << >>

\* New(parent): the arena with one more scope, the new one last
NewScope(sc, parent) == Append(sc, [parent |-> parent, nodes |-> EmptyNodes])

\* scope.nodes[name] = element
MapPut(nodes, name, element) ==
    [n \in (DOMAIN nodes) \cup {name} |-> IF n = name THEN element ELSE nodes[n]]

\* A plausible slip: the insert overwrites instead of refusing a bound name
InsertOverwrites(sc, s, name, element) ==
    [scopes |-> [sc EXCEPT ![s].nodes = MapPut(@, name, element)], err |-> NoErr]

\* A plausible slip: the insert refuses a name bound anywhere on the chain
RECURSIVE BoundOnChain(_, _, _)
BoundOnChain(sc, s, name) ==
    IF name \in DOMAIN sc[s].nodes THEN TRUE
    ELSE IF sc[s].parent = NilScope THEN FALSE
    ELSE BoundOnChain(sc, sc[s].parent, name)

InsertChecksChain(sc, s, name, element) ==
    IF BoundOnChain(sc, s, name)
    THEN [scopes |-> sc,
          err |-> Errorf("%s: %s", <<SYMBOL_ALREADY_DEFINED_ON_SCOPE.fmt, name>>)]
    ELSE [scopes |-> [sc EXCEPT ![s].nodes = MapPut(@, name, element)],
          err |-> NoErr]

\* Scope.Insert
Insert(sc, s, name, element) ==
    IF name \in DOMAIN sc[s].nodes
    THEN [scopes |-> sc,
          err |-> Errorf("%s: %s", <<SYMBOL_ALREADY_DEFINED_ON_SCOPE.fmt, name>>)]
    ELSE [scopes |-> [sc EXCEPT ![s].nodes = MapPut(@, name, element)],
          err |-> NoErr]

\* A plausible slip: the lookup searches the parent before the scope itself
RECURSIVE LookupParentFirst(_, _, _)
LookupParentFirst(sc, s, name) ==
    LET up == LookupParentFirst(sc, sc[s].parent, name) IN
    IF sc[s].parent # NilScope /\ up.err = NoErr THEN up
    ELSE IF name \in DOMAIN sc[s].nodes
    THEN [val |-> sc[s].nodes[name], err |-> NoErr]
    ELSE [val |-> 0, err |-> Errorf("%s: %s", <<SYMBOL_NOT_FOUND_ON_SCOPE.fmt, name>>)]

\* Scope.Lookup; the zero value of V is 0
RECURSIVE Lookup(_, _, _)
Lookup(sc, s, name) ==
    IF name \in DOMAIN sc[s].nodes
    THEN [val |-> sc[s].nodes[name], err |-> NoErr]
    ELSE IF sc[s].parent = NilScope
    THEN [val |-> 0, err |-> Errorf("%s: %s", <<SYMBOL_NOT_FOUND_ON_SCOPE.fmt, name>>)]
    ELSE Lookup(sc, sc[s].parent, name)

-----------------------------------------------------------------------------
(* Tokens.  A token carries its kind, its text and its position; the       *)
(* position of a token is its index in the stream.  Past the last token    *)
(* the lexer keeps returning the end-of-input token.                       *)

Token(kind, lexeme) == [Kind |-> kind, Lexeme |-> lexeme]

EOFToken(st) == [Kind |-> "EOF", Lexeme |-> "", Pos |-> Len(st.lex) + 1]

TokenAt(st, i) ==
    IF i <= Len(st.lex)
    THEN [Kind |-> st.lex[i].Kind, Lexeme |-> st.lex[i].Lexeme, Pos |-> i]
    ELSE EOFToken(st)

\* p.lex.Peek(): the current token
Peek(st) == TokenAt(st, st.pos)

\* p.lex.Peek1(): the token after the current one
Peek1(st) == TokenAt(st, st.pos + 1)

\* p.lex.NextIs(kind)
NextIs(st, kind) == Peek(st).Kind = kind

\* p.lex.Skip(): consume the current token
Skip(st) ==
    [st EXCEPT !.pos = @ + 1,
               !.ghost.skipsAfterFail = IF st.ghost.failed THEN @ + 1 ELSE @]

\* token.Kind.IsBasicType()
BasicTypeKinds == {"INT_TYPE", "I32_TYPE", "U8_TYPE", "BOOL_TYPE", "VOID_TYPE"}

IsBasicType(kind) == kind \in BasicTypeKinds

\* token.LITERAL_KIND
LITERAL_KIND == {"INTEGER_LITERAL", "STRING_LITERAL", "TRUE_BOOL_LITERAL", "FALSE_BOOL_LITERAL"}

\* The operator tables of the precedence ladder
LOGICAL == {"EQUAL_EQUAL", "BANG_EQUAL", "AND", "OR"}

COMPARASION == {"GREATER", "GREATER_EQ", "LESS", "LESS_EQ"}

TERM == {"MINUS", "PLUS"}

FACTOR == {"SLASH", "STAR"}

UNARY == {"NOT", "MINUS"}

-----------------------------------------------------------------------------
(* What a parsing function returns, and the collector *)

\* The nil node / nil pointer
Nil == [node |-> "nil"]

\* return val, nil
Ok(st, val) == [st |-> st, val |-> val, err |-> NoErr]

\* return nil, err   for an error made or found in this function
Fail(st, err) ==
    [st |-> [st EXCEPT !.ghost.failed = TRUE], val |-> Nil, err |-> err]

\* return nil, err   for the error a callee returned
Propagate(r) == [st |-> r.st, val |-> Nil, err |-> r.err]

\* diagnostics.Diag: the message's format, the position it names and its
\* arguments
Diag(message, tok, args) == [Message |-> message, Pos |-> tok.Pos, Args |-> args]

\* p.collector.ReportAndSave(diag)
ReportAndSave(st, diag) == [st EXCEPT !.collector = Append(@, diag)]

\* log.Fatal(...): the process exits inside the parser
LogFatal(text) == [ptr |-> "log.Fatal", fmt |-> text, args |-> <<>>]

IsFatal(err) == err.ptr = "log.Fatal"

\* History: function fn found the token it expects missing and returned err,
\* having reported a diagnostic or not
MissingToken(st, fn, expected, reported, err) ==
    [st EXCEPT !.ghost.missing =
        Append(@, [fn |-> fn, expected |-> expected, at |-> st.pos,
                   reported |-> reported, err |-> err])]

\* The two ways a function leaves when an expected token is missing:
\* report a diagnostic at tok and return the sentinel ...
MissingReported(st, fn, expected, message, tok, args) ==
    Fail(MissingToken(ReportAndSave(st, Diag(message, tok, args)),
                      fn, expected, TRUE, COMPILER_ERROR_FOUND),
         COMPILER_ERROR_FOUND)

\* ... or return an error of its own, with no diagnostic
MissingUnreported(st, fn, expected, err) ==
    Fail(MissingToken(st, fn, expected, FALSE, err), err)

\* A local that holds what a parsing function returned: the function f has
\* one argument, the value returned, and Only(f) is f of it (f is named once,
\* so that the call it holds is evaluated once)
Only(f) == CHOOSE y \in {g[CHOOSE v \in DOMAIN g : TRUE] : g \in {f}} : TRUE

\* A loop that comes back to its head, or a function that calls itself, with
\* no token consumed since the last time would do so without end.  History:
\* loop goes into its next turn in state after, the turn before it having
\* begun in state before; the turn stalls when the cursor has not moved
NextTurn(loop, before, after) ==
    [after EXCEPT !.ghost.turns = Append(@, loop),
                  !.ghost.stalls = IF after.pos > before.pos THEN @
                                   ELSE Append(@, loop)]

\* The parse that never returns
Diverges == [ptr |-> "diverges", fmt |-> "", args |-> <<>>]

\* A turn that stalls is not followed further
Diverged(st) == [st |-> st, val |-> Nil, err |-> Diverges]

\* Parser.expect
expect(st, expectedKind) ==
    LET tok == Peek(st) IN
    IF tok.Kind # expectedKind
    THEN [st |-> st, tok |-> tok, ok |-> FALSE]
    ELSE [st |-> Skip(st), tok |-> tok, ok |-> TRUE]

-----------------------------------------------------------------------------
(* Types *)

RECURSIVE parseExprType(_)
\* Parser.parseExprType
parseExprType(st) ==
    IF st.ghost.stalls # <<>> THEN Diverged(st) ELSE
    LET tok == Peek(st) IN
    IF tok.Kind = "STAR"
    THEN Only([r \in {parseExprType(NextTurn("parseExprType", st, Skip(st)))} |->
         IF r.err # NoErr THEN Propagate(r)
         ELSE Ok(r.st, [node |-> "PointerType", Type |-> r.val])])
    ELSE IF tok.Kind = "ID"
    THEN Ok(Skip(st), [node |-> "IdType", Name |-> tok])
    ELSE IF IsBasicType(tok.Kind)
    THEN Ok(Skip(st), [node |-> "BasicType", Kind |-> tok.Kind])
    ELSE Fail(st, COMPILER_ERROR_FOUND)

-----------------------------------------------------------------------------
(* Expressions *)

RECURSIVE parseExpr(_)
RECURSIVE parseLogical(_)
RECURSIVE parseLogicalFold(_, _)
RECURSIVE parseComparasion(_)
RECURSIVE parseComparasionFold(_, _)
RECURSIVE parseTerm(_)
RECURSIVE parseTermFold(_, _)
RECURSIVE parseFactor(_)
RECURSIVE parseFactorFold(_, _)
RECURSIVE parseUnary(_)
RECURSIVE parsePrimary(_)
RECURSIVE parseExprList(_, _)
RECURSIVE parseExprListFrom(_, _, _)
RECURSIVE parseFnCall(_)
RECURSIVE parseFieldAccess(_)

BinaryExpr(lhs, op, rhs) ==
    [node |-> "BinaryExpr", Left |-> lhs, Op |-> op, Right |-> rhs]

\* The for loop of parseLogical, entered with lhs
parseLogicalFold(st, lhs) ==
    IF st.ghost.stalls # <<>> THEN Diverged(st) ELSE
    LET next == Peek(st) IN
    IF next.Kind \in LOGICAL
    THEN Only([r \in {parseComparasion(Skip(st))} |->
         IF r.err # NoErr THEN Propagate(r)
         ELSE parseLogicalFold(NextTurn("parseLogical", st, r.st),
                  BinaryExpr(lhs, next.Kind, r.val))])
    ELSE Ok(st, lhs)

\* Parser.parseLogical
parseLogical(st) ==
    Only([l \in {parseComparasion(st)} |->
    IF l.err # NoErr THEN Propagate(l)
    ELSE parseLogicalFold(l.st, l.val)])

\* Parser.parseExpr
parseExpr(st) == parseLogical(st)

\* The for loop of parseComparasion, entered with lhs
parseComparasionFold(st, lhs) ==
    IF st.ghost.stalls # <<>> THEN Diverged(st) ELSE
    LET next == Peek(st) IN
    IF next.Kind \in COMPARASION
    THEN Only([r \in {parseTerm(Skip(st))} |->
         IF r.err # NoErr THEN Propagate(r)
         ELSE parseComparasionFold(NextTurn("parseComparasion", st, r.st),
                  BinaryExpr(lhs, next.Kind, r.val))])
    ELSE Ok(st, lhs)

\* Parser.parseComparasion
parseComparasion(st) ==
    Only([l \in {parseTerm(st)} |->
    IF l.err # NoErr THEN Propagate(l)
    ELSE parseComparasionFold(l.st, l.val)])

\* A plausible slip: the right operand of a term operator is read as a whole
\* term, which makes the level fold to the right
parseTermFoldRight(st, lhs) ==
    LET next == Peek(st) IN
    IF next.Kind \in TERM
    THEN Only([r \in {parseTerm(Skip(st))} |->
         IF r.err # NoErr THEN Propagate(r)
         ELSE Ok(r.st, BinaryExpr(lhs, next.Kind, r.val))])
    ELSE Ok(st, lhs)

\* The for loop of parseTerm, entered with lhs
parseTermFold(st, lhs) ==
    IF st.ghost.stalls # <<>> THEN Diverged(st) ELSE
    LET next == Peek(st) IN
    IF next.Kind \in TERM
    THEN Only([r \in {parseFactor(Skip(st))} |->
         IF r.err # NoErr THEN Propagate(r)
         ELSE parseTermFold(NextTurn("parseTerm", st, r.st),
                  BinaryExpr(lhs, next.Kind, r.val))])
    ELSE Ok(st, lhs)

\* Parser.parseTerm
parseTerm(st) ==
    Only([l \in {parseFactor(st)} |->
    IF l.err # NoErr THEN Propagate(l)
    ELSE parseTermFold(l.st, l.val)])

\* The for loop of parseFactor, entered with lhs
parseFactorFold(st, lhs) ==
    IF st.ghost.stalls # <<>> THEN Diverged(st) ELSE
    LET next == Peek(st) IN
    IF next.Kind \in FACTOR
    THEN Only([r \in {parseUnary(Skip(st))} |->
         IF r.err # NoErr THEN Propagate(r)
         ELSE parseFactorFold(NextTurn("parseFactor", st, r.st),
                  BinaryExpr(lhs, next.Kind, r.val))])
    ELSE Ok(st, lhs)

\* Parser.parseFactor
parseFactor(st) ==
    Only([l \in {parseUnary(st)} |->
    IF l.err # NoErr THEN Propagate(l)
    ELSE parseFactorFold(l.st, l.val)])

\* Parser.parseUnary
parseUnary(st) ==
    IF st.ghost.stalls # <<>> THEN Diverged(st) ELSE
    LET next == Peek(st) IN
    IF next.Kind \in UNARY
    THEN Only([r \in {parseUnary(NextTurn("parseUnary", st, Skip(st)))} |->
         IF r.err # NoErr THEN Propagate(r)
         ELSE Ok(r.st, [node |-> "UnaryExpr", Op |-> next.Kind, Value |-> r.val])])
    ELSE parsePrimary(st)

\* Parser.parsePrimary
parsePrimary(st) ==
    LET tok == Peek(st) IN
    IF tok.Kind = "ID"
    THEN LET next == Peek1(st) IN
         IF next.Kind = "OPEN_PAREN" THEN parseFnCall(st)
         ELSE IF next.Kind = "DOT" THEN parseFieldAccess(st)
         ELSE Ok(Skip(st), [node |-> "IdExpr", Name |-> tok])
    ELSE IF tok.Kind = "OPEN_PAREN"
    THEN Only([r \in {parseExpr(NextTurn("parsePrimary", st, Skip(st)))} |->
         IF r.err # NoErr THEN Propagate(r)
         ELSE LET e == expect(r.st, "CLOSE_PAREN") IN
              IF ~e.ok
              THEN MissingUnreported(e.st, "parsePrimary", "CLOSE_PAREN",
                                     Errorf("expected closing parenthesis", <<>>))
              ELSE Ok(e.st, r.val)])
    ELSE IF tok.Kind \in LITERAL_KIND
    THEN Ok(Skip(st), [node |-> "LiteralExpr",
                       Type |-> [node |-> "BasicType", Kind |-> tok.Kind],
                       Value |-> tok.Lexeme])
    ELSE Fail(st, Errorf("invalid token for expression parsing: %s %s %s",
                         <<tok.Kind, tok.Lexeme, ToString(tok.Pos)>>))

\* The for loop of parseExprList, entered with the expressions read so far
parseExprListFrom(st, possibleEnds, exprs) ==
    IF st.ghost.stalls # <<>> THEN Diverged(st) ELSE
    IF \E end \in possibleEnds : NextIs(st, end)
    THEN Ok(st, exprs)
    ELSE Only([r \in {parseExpr(st)} |->
         IF r.err # NoErr THEN Propagate(r)
         ELSE IF NextIs(r.st, "COMMA")
         THEN parseExprListFrom(NextTurn("parseExprList", st, Skip(r.st)),
                                possibleEnds, Append(exprs, r.val))
         ELSE parseExprListFrom(NextTurn("parseExprList", st, r.st),
                                possibleEnds, Append(exprs, r.val))])

\* Parser.parseExprList
parseExprList(st, possibleEnds) == parseExprListFrom(st, possibleEnds, <<>>)

\* Parser.parseFnCall
parseFnCall(st) ==
    LET name == expect(st, "ID") IN
    IF ~name.ok
    THEN MissingUnreported(name.st, "parseFnCall", "ID", Errorf("expected 'id'", <<>>))
    ELSE
    LET open == expect(name.st, "OPEN_PAREN") IN
    IF ~open.ok
    THEN MissingUnreported(open.st, "parseFnCall", "OPEN_PAREN",
                           Errorf("expected '('", <<>>))
    ELSE
    Only([args \in {parseExprList(open.st, {"CLOSE_PAREN"})} |->
    IF args.err # NoErr THEN Propagate(args)
    ELSE
    LET close == expect(args.st, "CLOSE_PAREN") IN
    IF ~close.ok
    THEN MissingUnreported(close.st, "parseFnCall", "CLOSE_PAREN",
                           Errorf("expected ')'", <<>>))
    ELSE Ok(close.st, [node |-> "FunctionCall", Name |-> name.tok, Args |-> args.val])])

\* A plausible slip: the right side of an access is an identifier taken as it
\* stands, with no look at the token after it
parseFieldAccessPlainRight(st) ==
    LET id == expect(st, "ID") IN
    IF ~id.ok
    THEN MissingUnreported(id.st, "parseFieldAccess", "ID", LogFatal("expected ID"))
    ELSE
    LET dot == expect(id.st, "DOT") IN
    IF ~dot.ok
    THEN MissingUnreported(dot.st, "parseFieldAccess", "DOT", LogFatal("expect a dot"))
    ELSE
    IF NextIs(dot.st, "ID")
    THEN Ok(Skip(dot.st), [node |-> "FieldAccess",
                           Left |-> [node |-> "IdExpr", Name |-> id.tok],
                           Right |-> [node |-> "IdExpr", Name |-> Peek(dot.st)]])
    ELSE
    Only([right \in {parsePrimary(dot.st)} |->
    IF right.err # NoErr
    THEN [st |-> right.st, val |-> Nil, err |-> LogFatal(right.err.fmt)]
    ELSE Ok(right.st, [node |-> "FieldAccess",
                       Left |-> [node |-> "IdExpr", Name |-> id.tok],
                       Right |-> right.val])])

\* Parser.parseFieldAccess: it returns no error; a malformed access ends the
\* process (log.Fatal), which the model hands upward as a fatal error
parseFieldAccess(st) ==
    LET id == expect(st, "ID") IN
    IF ~id.ok
    THEN MissingUnreported(id.st, "parseFieldAccess", "ID", LogFatal("expected ID"))
    ELSE
    LET dot == expect(id.st, "DOT") IN
    IF ~dot.ok
    THEN MissingUnreported(dot.st, "parseFieldAccess", "DOT", LogFatal("expect a dot"))
    ELSE
    Only([right \in {parsePrimary(dot.st)} |->
    IF right.err # NoErr
    THEN [st |-> right.st, val |-> Nil, err |-> LogFatal(right.err.fmt)]
    ELSE Ok(right.st, [node |-> "FieldAccess",
                       Left |-> [node |-> "IdExpr", Name |-> id.tok],
                       Right |-> right.val])])

-----------------------------------------------------------------------------
(* Statements *)

RECURSIVE parseStmt(_)
RECURSIVE parseBlock(_)
RECURSIVE parseBlockStatements(_, _)
RECURSIVE ParseIdStmt(_)
RECURSIVE parseVar(_)
RECURSIVE parseVarNames(_, _)
RECURSIVE parseCondStmt(_)
RECURSIVE parseIfCond(_)
RECURSIVE parseElifConds(_, _)
RECURSIVE parseElseCond(_)
RECURSIVE parseForLoop(_)
RECURSIVE parseWhileLoop(_)

\* Parser.parseStmt; it returns (nil, nil) on a token that starts no statement
parseStmt(st) ==
    LET tok == Peek(st) IN
    IF tok.Kind = "RETURN"
    THEN LET st1 == Skip(st) IN
         IF NextIs(st1, "SEMICOLON")
         THEN Ok(Skip(st1), [node |-> "ReturnStmt", Return |-> tok,
                             Value |-> [node |-> "VoidExpr"]])
         ELSE
         Only([returnValue \in {parseExpr(st1)} |->
         IF IsFatal(returnValue.err) THEN Propagate(returnValue)
         ELSE IF returnValue.err # NoErr
         THEN MissingReported(returnValue.st, "parseStmt", "expression or ;",
                              "expected expression or ;, not %s",
                              Peek(returnValue.st), <<Peek(returnValue.st).Kind>>)
         ELSE
         LET semicolon == expect(returnValue.st, "SEMICOLON") IN
         IF ~semicolon.ok
         THEN MissingReported(semicolon.st, "parseStmt", "SEMICOLON",
                              "expected ; at the end of statement, not %s",
                              Peek(semicolon.st), <<Peek(semicolon.st).Kind>>)
         ELSE Ok(semicolon.st, [node |-> "ReturnStmt", Return |-> tok,
                                Value |-> returnValue.val])])
    ELSE IF tok.Kind = "ID"
    THEN Only([idStmt \in {ParseIdStmt(st)} |->
         IF idStmt.err # NoErr THEN Propagate(idStmt)
         ELSE
         LET semicolon == expect(idStmt.st, "SEMICOLON") IN
         IF ~semicolon.ok
         THEN MissingReported(semicolon.st, "parseStmt", "SEMICOLON",
                              "expected ; at the end of statement, not %s",
                              semicolon.tok, <<semicolon.tok.Kind>>)
         ELSE Ok(semicolon.st, idStmt.val)])
    ELSE IF tok.Kind = "IF" THEN parseCondStmt(st)
    ELSE IF tok.Kind = "FOR" THEN parseForLoop(st)
    ELSE IF tok.Kind = "WHILE" THEN parseWhileLoop(st)
    ELSE Ok(st, Nil)

\* A plausible slip: a statement that fails is stepped over and the block
\* goes on with what follows it
parseBlockStatementsResync(st, statements) ==
    IF Peek(st).Kind \in {"CLOSE_CURLY", "EOF"} THEN Ok(st, statements)
    ELSE Only([stmt \in {parseStmt(st)} |->
         IF stmt.err # NoErr THEN parseBlockStatements(Skip(stmt.st), statements)
         ELSE IF stmt.val # Nil
         THEN parseBlockStatements(stmt.st, Append(statements, stmt.val))
         ELSE Ok(stmt.st, statements)])

\* A plausible slip: a token that starts no statement does not end the loop
parseBlockStatementsNoBreak(st, statements) ==
    IF st.ghost.stalls # <<>> THEN Diverged(st) ELSE
    IF Peek(st).Kind = "CLOSE_CURLY" THEN Ok(st, statements)
    ELSE Only([stmt \in {parseStmt(st)} |->
         IF stmt.err # NoErr THEN Propagate(stmt)
         ELSE IF stmt.val # Nil
         THEN parseBlockStatements(NextTurn("parseBlock", st, stmt.st),
                                   Append(statements, stmt.val))
         ELSE parseBlockStatements(NextTurn("parseBlock", st, stmt.st), statements)])

\* The for loop of parseBlock, entered with the statements read so far
parseBlockStatements(st, statements) ==
    IF st.ghost.stalls # <<>> THEN Diverged(st) ELSE
    IF Peek(st).Kind = "CLOSE_CURLY" THEN Ok(st, statements)
    ELSE Only([stmt \in {parseStmt(st)} |->
         IF stmt.err # NoErr THEN Propagate(stmt)
         ELSE IF stmt.val # Nil
         THEN parseBlockStatements(NextTurn("parseBlock", st, stmt.st),
                                   Append(statements, stmt.val))
         ELSE Ok(stmt.st, statements)])

\* Parser.parseBlock
parseBlock(st) ==
    LET openCurly == expect(st, "OPEN_CURLY") IN
    IF ~openCurly.ok
    THEN MissingUnreported(openCurly.st, "parseBlock", "OPEN_CURLY",
                           Errorf("expected '{', but got %s", <<openCurly.tok.Kind>>))
    ELSE
    Only([statements \in {parseBlockStatements(openCurly.st, <<>>)} |->
    IF statements.err # NoErr THEN Propagate(statements)
    ELSE
    LET closeCurly == expect(statements.st, "CLOSE_CURLY") IN
    IF ~closeCurly.ok
    THEN MissingReported(closeCurly.st, "parseBlock", "CLOSE_CURLY",
                         "expected statement or }, not %s",
                         closeCurly.tok, <<closeCurly.tok.Kind>>)
    ELSE Ok(closeCurly.st, [node |-> "BlockStmt", OpenCurly |-> openCurly.tok.Pos,
                            Statements |-> statements.val,
                            CloseCurly |-> closeCurly.tok.Pos])])

\* Parser.ParseIdStmt
ParseIdStmt(st) ==
    LET aheadId == Peek1(st) IN
    IF aheadId.Kind = "OPEN_PAREN" THEN parseFnCall(st)
    ELSE IF aheadId.Kind = "DOT" THEN parseFieldAccess(st)
    ELSE parseVar(st)

VarStmt(name, type, value, decl, needsInference) ==
    [node |-> "VarStmt", Name |-> name, Type |-> type, Value |-> value,
     Decl |-> decl, NeedsInference |-> needsInference]

\* The VarDecl loop of parseVar, entered with the variables read so far; it
\* returns the variables and isDecl
parseVarNames(st, variables) ==
    IF st.ghost.stalls # <<>> THEN Diverged(st) ELSE
    LET name == expect(st, "ID") IN
    IF ~name.ok
    THEN MissingUnreported(name.st, "parseVar", "ID", Errorf("expected ID", <<>>))
    ELSE
    LET variable == VarStmt(name.tok, Nil, Nil, TRUE, TRUE)
        next == Peek(name.st)
    IN
    IF next.Kind \in {"COLON_EQUAL", "EQUAL"}
    THEN Ok(Skip(name.st), [variables |-> Append(variables, variable),
                            isDecl |-> next.Kind = "COLON_EQUAL"])
    ELSE IF next.Kind = "COMMA"
    THEN parseVarNames(NextTurn("parseVar", st, Skip(name.st)),
                       Append(variables, variable))
    ELSE
    Only([ty \in {parseExprType(name.st)} |->
    IF ty.err # NoErr THEN Propagate(ty)
    ELSE
    LET typed == VarStmt(name.tok, ty.val, Nil, TRUE, FALSE)
        after == Peek(ty.st)
    IN
    IF after.Kind \in {"COLON_EQUAL", "EQUAL"}
    THEN Ok(Skip(ty.st), [variables |-> Append(variables, typed),
                          isDecl |-> after.Kind = "COLON_EQUAL"])
    ELSE IF after.Kind = "COMMA"
    THEN parseVarNames(NextTurn("parseVar", st, Skip(ty.st)),
                       Append(variables, typed))
    ELSE parseVarNames(NextTurn("parseVar", st, ty.st), Append(variables, typed))])

\* A plausible slip: the loop that fills in the values forgets the Decl flag,
\* which stays as constructed
parseVarKeepsDecl(st) ==
    Only([names \in {parseVarNames(st, <<>>)} |->
    IF names.err # NoErr THEN Propagate(names)
    ELSE
    LET variables == names.val.variables
        isDecl == names.val.isDecl
    IN
    Only([exprs \in {parseExprList(names.st, {"SEMICOLON", "CLOSE_PAREN"})} |->
    IF exprs.err # NoErr THEN Propagate(exprs)
    ELSE IF Len(variables) # Len(exprs.val)
    THEN Fail(exprs.st, Errorf("%d != %d", <<ToString(Len(variables)),
                                             ToString(Len(exprs.val))>>))
    ELSE
    LET bound == [i \in 1..Len(variables) |->
                    [variables[i] EXCEPT !.Value = exprs.val[i]]]
    IN
    IF Len(bound) = 1 THEN Ok(exprs.st, bound[1])
    ELSE Ok(exprs.st, [node |-> "MultiVarStmt", IsDecl |-> isDecl,
                       Variables |-> bound])])])

\* Parser.parseVar
parseVar(st) ==
    Only([names \in {parseVarNames(st, <<>>)} |->
    IF names.err # NoErr THEN Propagate(names)
    ELSE
    LET variables == names.val.variables
        isDecl == names.val.isDecl
    IN
    Only([exprs \in {parseExprList(names.st, {"SEMICOLON", "CLOSE_PAREN"})} |->
    IF exprs.err # NoErr THEN Propagate(exprs)
    ELSE IF Len(variables) # Len(exprs.val)
    THEN Fail(exprs.st, Errorf("%d != %d", <<ToString(Len(variables)),
                                             ToString(Len(exprs.val))>>))
    ELSE
    LET bound == [i \in 1..Len(variables) |->
                    [variables[i] EXCEPT !.Value = exprs.val[i], !.Decl = isDecl]]
    IN
    IF Len(bound) = 1 THEN Ok(exprs.st, bound[1])
    ELSE Ok(exprs.st, [node |-> "MultiVarStmt", IsDecl |-> isDecl,
                       Variables |-> bound])])])

\* Parser.parseCondStmt
parseCondStmt(st) ==
    Only([ifCond \in {parseIfCond(st)} |->
    IF ifCond.err # NoErr THEN Propagate(ifCond)
    ELSE
    Only([elifConds \in {parseElifConds(ifCond.st, <<>>)} |->
    IF elifConds.err # NoErr THEN Propagate(elifConds)
    ELSE
    Only([elseCond \in {parseElseCond(elifConds.st)} |->
    IF elseCond.err # NoErr THEN Propagate(elseCond)
    ELSE Ok(elseCond.st, [node |-> "CondStmt", IfStmt |-> ifCond.val,
                          ElifStmts |-> elifConds.val, ElseStmt |-> elseCond.val])])])])

\* Parser.parseIfCond
parseIfCond(st) ==
    LET ifToken == expect(st, "IF") IN
    IF ~ifToken.ok
    THEN MissingUnreported(ifToken.st, "parseIfCond", "IF",
                           Errorf("expected 'if'", <<>>))
    ELSE
    Only([ifExpr \in {parseExpr(ifToken.st)} |->
    IF ifExpr.err # NoErr THEN Propagate(ifExpr)
    ELSE
    Only([ifBlock \in {parseBlock(ifExpr.st)} |->
    IF ifBlock.err # NoErr THEN Propagate(ifBlock)
    ELSE Ok(ifBlock.st, [node |-> "IfElifCond", If |-> ifToken.tok.Pos,
                         Expr |-> ifExpr.val, Block |-> ifBlock.val])])])

\* Parser.parseElifConds; its for loop is entered with the branches read so far
parseElifConds(st, elifConds) ==
    IF st.ghost.stalls # <<>> THEN Diverged(st) ELSE
    LET elifToken == expect(st, "ELIF") IN
    IF ~elifToken.ok THEN Ok(elifToken.st, elifConds)
    ELSE
    Only([elifExpr \in {parseExpr(elifToken.st)} |->
    IF elifExpr.err # NoErr THEN Propagate(elifExpr)
    ELSE
    Only([elifBlock \in {parseBlock(elifExpr.st)} |->
    IF elifBlock.err # NoErr THEN Propagate(elifBlock)
    ELSE parseElifConds(NextTurn("parseElifConds", st, elifBlock.st),
             Append(elifConds, [node |-> "IfElifCond", If |-> elifToken.tok.Pos,
                                Expr |-> elifExpr.val, Block |-> elifBlock.val]))])])

\* Parser.parseElseCond
parseElseCond(st) ==
    LET elseToken == expect(st, "ELSE") IN
    IF ~elseToken.ok THEN Ok(elseToken.st, Nil)
    ELSE
    Only([elseBlock \in {parseBlock(elseToken.st)} |->
    IF elseBlock.err # NoErr THEN Propagate(elseBlock)
    ELSE Ok(elseBlock.st, [node |-> "ElseCond", Else |-> elseToken.tok.Pos,
                           Block |-> elseBlock.val])])

\* Parser.parseForLoop
parseForLoop(st) ==
    LET for == expect(st, "FOR") IN
    IF ~for.ok
    THEN MissingUnreported(for.st, "parseForLoop", "FOR", Errorf("expected 'for'", <<>>))
    ELSE
    LET open == expect(for.st, "OPEN_PAREN") IN
    IF ~open.ok
    THEN MissingUnreported(open.st, "parseForLoop", "OPEN_PAREN",
                           Errorf("expected '('", <<>>))
    ELSE
    Only([init \in {parseVar(open.st)} |->
    IF init.err # NoErr THEN Propagate(init)
    ELSE
    LET semi1 == expect(init.st, "SEMICOLON") IN
    IF ~semi1.ok
    THEN MissingUnreported(semi1.st, "parseForLoop", "SEMICOLON",
                           Errorf("expected ';'", <<>>))
    ELSE
    Only([cond \in {parseExpr(semi1.st)} |->
    IF cond.err # NoErr THEN Propagate(cond)
    ELSE
    LET semi2 == expect(cond.st, "SEMICOLON") IN
    IF ~semi2.ok
    THEN MissingUnreported(semi2.st, "parseForLoop", "SEMICOLON",
                           Errorf("expected ';'", <<>>))
    ELSE
    Only([update \in {parseVar(semi2.st)} |->
    IF update.err # NoErr THEN Propagate(update)
    ELSE
    LET close == expect(update.st, "CLOSE_PAREN") IN
    IF ~close.ok
    THEN MissingUnreported(close.st, "parseForLoop", "CLOSE_PAREN",
                           Errorf("expected ')'", <<>>))
    ELSE
    Only([block \in {parseBlock(close.st)} |->
    IF block.err # NoErr THEN Propagate(block)
    ELSE Ok(block.st, [node |-> "ForLoop", Init |-> init.val, Cond |-> cond.val,
                       Update |-> update.val, Block |-> block.val])])])])])

\* Parser.parseWhileLoop
parseWhileLoop(st) ==
    LET while == expect(st, "WHILE") IN
    IF ~while.ok
    THEN MissingUnreported(while.st, "parseWhileLoop", "WHILE",
                           Errorf("expected 'while'", <<>>))
    ELSE
    Only([expr \in {parseExpr(while.st)} |->
    IF expr.err # NoErr THEN Propagate(expr)
    ELSE
    Only([block \in {parseBlock(expr.st)} |->
    IF block.err # NoErr THEN Propagate(block)
    ELSE Ok(block.st, [node |-> "WhileLoop", Cond |-> expr.val, Block |-> block.val])])])

-----------------------------------------------------------------------------
(* Declarations *)

RECURSIVE parseFunctionParamsFrom(_, _)
RECURSIVE parsePrototypes(_, _)

\* A plausible slip: the loop stops at an ellipsis without looking at what
\* follows it
parseFunctionParamsAnyEllipsis(st, params) ==
    IF NextIs(st, "DOT_DOT_DOT")
    THEN Ok(Skip(st), [params |-> params, isVariadic |-> TRUE])
    ELSE IF NextIs(st, "CLOSE_PAREN")
    THEN Ok(st, [params |-> params, isVariadic |-> FALSE])
    ELSE
    LET name == expect(st, "ID") IN
    Only([paramType \in {parseExprType(name.st)} |->
    LET field == [node |-> "Field", Name |-> name.tok, Type |-> paramType.val] IN
    IF ~name.ok \/ paramType.err # NoErr
    THEN Fail(ReportAndSave(st, Diag("expected parameter or ), not %s",
                                     Peek(st), <<Peek(st).Kind>>)),
              COMPILER_ERROR_FOUND)
    ELSE IF NextIs(paramType.st, "COMMA")
    THEN parseFunctionParamsFrom(Skip(paramType.st), Append(params, field))
    ELSE parseFunctionParamsFrom(paramType.st, Append(params, field))])

\* The for loop of parseFunctionParams, entered with the parameters read so
\* far; it returns the parameters and isVariadic
parseFunctionParamsFrom(st, params) ==
    IF st.ghost.stalls # <<>> THEN Diverged(st) ELSE
    IF NextIs(st, "CLOSE_PAREN")
    THEN Ok(st, [params |-> params, isVariadic |-> FALSE])
    ELSE IF NextIs(st, "DOT_DOT_DOT")
    THEN LET tok == Peek(st)
             st1 == Skip(st)
         IN  IF ~NextIs(st1, "CLOSE_PAREN")
             THEN MissingReported(st1, "parseFunctionParams", "CLOSE_PAREN",
                                  "... is only allowed at the end of parameter list",
                                  tok, <<>>)
             ELSE Ok(st1, [params |-> params, isVariadic |-> TRUE])
    ELSE
    LET name == expect(st, "ID") IN
    IF ~name.ok
    THEN MissingReported(name.st, "parseFunctionParams", "ID",
                         "expected parameter or ), not %s",
                         name.tok, <<name.tok.Kind>>)
    ELSE
    Only([paramType \in {parseExprType(name.st)} |->
    IF paramType.err # NoErr
    THEN MissingReported(paramType.st, "parseFunctionParams", "type",
                         "expected parameter type for '%s', not %s",
                         Peek(paramType.st),
                         <<name.tok.Lexeme, Peek(paramType.st).Kind>>)
    ELSE
    LET field == [node |-> "Field", Name |-> name.tok, Type |-> paramType.val] IN
    IF NextIs(paramType.st, "COMMA")
    THEN parseFunctionParamsFrom(NextTurn("parseFunctionParams", st, Skip(paramType.st)),
                                 Append(params, field))
    ELSE parseFunctionParamsFrom(NextTurn("parseFunctionParams", st, paramType.st),
                                 Append(params, field))])

\* Parser.parseFunctionParams
parseFunctionParams(st) ==
    LET openParen == expect(st, "OPEN_PAREN") IN
    IF ~openParen.ok
    THEN MissingReported(openParen.st, "parseFunctionParams", "OPEN_PAREN",
                         "expected (, not %s",
                         openParen.tok, <<openParen.tok.Kind>>)
    ELSE
    Only([list \in {parseFunctionParamsFrom(openParen.st, <<>>)} |->
    IF list.err # NoErr THEN Propagate(list)
    ELSE
    LET closeParen == expect(list.st, "CLOSE_PAREN") IN
    IF ~closeParen.ok
    THEN MissingReported(closeParen.st, "parseFunctionParams", "CLOSE_PAREN",
                         "expected ), not %s",
                         closeParen.tok, <<closeParen.tok.Kind>>)
    ELSE Ok(closeParen.st, [node |-> "FieldList", Open |-> openParen.tok,
                            Fields |-> list.val.params, Close |-> closeParen.tok,
                            IsVariadic |-> list.val.isVariadic])])

\* Parser.parseReturnType
parseReturnType(st, isPrototype) ==
    IF (isPrototype /\ NextIs(st, "SEMICOLON")) \/ NextIs(st, "OPEN_CURLY")
    THEN Ok(st, [node |-> "BasicType", Kind |-> "VOID_TYPE"])
    ELSE
    Only([returnType \in {parseExprType(st)} |->
    IF returnType.err # NoErr
    THEN MissingReported(returnType.st, "parseReturnType", "type",
                         "expected type or {, not %s",
                         Peek(returnType.st), <<Peek(returnType.st).Kind>>)
    ELSE Ok(returnType.st, returnType.val)])

\* Parser.parsePrototype
parsePrototype(st) ==
    LET fn == expect(st, "FN") IN
    IF ~fn.ok
    THEN MissingReported(fn.st, "parsePrototype", "FN",
                         "expected prototype or }, not %s", fn.tok, <<fn.tok.Kind>>)
    ELSE
    LET name == expect(fn.st, "ID") IN
    IF ~name.ok
    THEN MissingReported(name.st, "parsePrototype", "ID",
                         "expected name, not %s", name.tok, <<name.tok.Kind>>)
    ELSE
    Only([params \in {parseFunctionParams(name.st)} |->
    IF params.err # NoErr THEN Propagate(params)
    ELSE
    Only([returnType \in {parseReturnType(params.st, TRUE)} |->
    IF returnType.err # NoErr THEN Propagate(returnType)
    ELSE
    LET semicolon == expect(returnType.st, "SEMICOLON") IN
    IF ~semicolon.ok
    THEN MissingReported(semicolon.st, "parsePrototype", "SEMICOLON",
                         "expected ; at the end of prototype, not %s",
                         semicolon.tok, <<semicolon.tok.Kind>>)
    ELSE Ok(semicolon.st, [node |-> "Proto", Name |-> name.tok,
                           Params |-> params.val, RetType |-> returnType.val])])])

\* The for loop of parseExternDecl, entered with the prototypes read so far
parsePrototypes(st, prototypes) ==
    IF st.ghost.stalls # <<>> THEN Diverged(st) ELSE
    IF NextIs(st, "CLOSE_CURLY") THEN Ok(st, prototypes)
    ELSE Only([proto \in {parsePrototype(st)} |->
         IF proto.err # NoErr THEN Propagate(proto)
         ELSE parsePrototypes(NextTurn("parseExternDecl", st, proto.st),
                              Append(prototypes, proto.val))])

\* Parser.parseExternDecl
parseExternDecl(st) ==
    LET extern == expect(st, "EXTERN") IN
    IF ~extern.ok
    THEN MissingUnreported(extern.st, "parseExternDecl", "EXTERN",
                           Errorf("expected 'extern'", <<>>))
    ELSE
    LET name == expect(extern.st, "ID") IN
    IF ~name.ok
    THEN MissingReported(name.st, "parseExternDecl", "ID",
                         "expected name, not %s", name.tok, <<name.tok.Kind>>)
    ELSE
    LET openCurly == expect(name.st, "OPEN_CURLY") IN
    IF ~openCurly.ok
    THEN MissingReported(openCurly.st, "parseExternDecl", "OPEN_CURLY",
                         "expected {, not %s", openCurly.tok, <<openCurly.tok.Kind>>)
    ELSE
    Only([prototypes \in {parsePrototypes(openCurly.st, <<>>)} |->
    IF prototypes.err # NoErr THEN Propagate(prototypes)
    ELSE
    LET closeCurly == expect(prototypes.st, "CLOSE_CURLY") IN
    IF ~closeCurly.ok
    THEN MissingReported(closeCurly.st, "parseExternDecl", "CLOSE_CURLY",
                         "expected }, not %s", closeCurly.tok, <<closeCurly.tok.Kind>>)
    ELSE Ok(closeCurly.st, [node |-> "ExternDecl", Scope |-> NilScope,
                            Name |-> name.tok, Prototypes |-> prototypes.val])])

\* p.moduleScope.Insert(name, fnDecl) on the parser's arena
moduleScopeInsert(st, name, fnDecl) ==
    LET r == Insert(st.scopes, st.moduleScope, name, fnDecl) IN
    [st |-> [st EXCEPT !.scopes = r.scopes,
                       !.ghost.insertsAfterFail =
                           IF st.ghost.failed /\ r.err = NoErr THEN @ + 1 ELSE @,
                       !.ghost.redeclared =
                           IF name \in DOMAIN st.scopes[st.moduleScope].nodes
                           THEN Append(@, name) ELSE @,
                       !.ghost.bound =
                           IF r.err = NoErr
                           THEN Append(@, [name |-> name, scope |-> st.moduleScope,
                                           path |-> st.path])
                           ELSE @],
     err |-> r.err]

\* Parser.parseFnDecl
parseFnDecl(st) ==
    LET fn == expect(st, "FN") IN
    IF ~fn.ok
    THEN MissingUnreported(fn.st, "parseFnDecl", "FN", Errorf("expected 'fn'", <<>>))
    ELSE
    LET name == expect(fn.st, "ID") IN
    IF ~name.ok
    THEN MissingReported(name.st, "parseFnDecl", "ID",
                         "expected name, not %s", name.tok, <<name.tok.Kind>>)
    ELSE
    Only([params \in {parseFunctionParams(name.st)} |->
    IF params.err # NoErr THEN Propagate(params)
    ELSE
    Only([returnType \in {parseReturnType(params.st, FALSE)} |->
    IF returnType.err # NoErr THEN Propagate(returnType)
    ELSE
    Only([block \in {parseBlock(returnType.st)} |->
    IF block.err # NoErr THEN Propagate(block)
    ELSE
    LET st1 == [block.st EXCEPT !.scopes = NewScope(@, block.st.moduleScope)]
        fnDecl == [node |-> "FunctionDecl", Scope |-> Len(st1.scopes),
                   Name |-> name.tok, Params |-> params.val,
                   Block |-> block.val, RetType |-> returnType.val]
        ins == moduleScopeInsert(st1, name.tok.Lexeme, fnDecl)
    IN
    IF ins.err # NoErr
    THEN IF ins.err = SYMBOL_ALREADY_DEFINED_ON_SCOPE
         THEN Fail(ReportAndSave(ins.st,
                       Diag("function '%s' already declared on scope",
                            name.tok, <<name.tok.Lexeme>>)),
                   ins.err)
         ELSE Fail(ins.st, ins.err)
    ELSE Ok(ins.st, fnDecl)])])])

\* A plausible slip: a token that starts no declaration ends the file
nextUnknownEndsFile(st) ==
    LET tok == Peek(st) IN
    IF tok.Kind = "FN"
    THEN Only([fnDecl \in {parseFnDecl(st)} |->
         [st |-> fnDecl.st, val |-> fnDecl.val, eof |-> FALSE, err |-> fnDecl.err]])
    ELSE IF tok.Kind = "EXTERN"
    THEN Only([externDecl \in {parseExternDecl(st)} |->
         [st |-> externDecl.st, val |-> externDecl.val, eof |-> FALSE,
          err |-> externDecl.err]])
    ELSE [st |-> st, val |-> Nil, eof |-> TRUE, err |-> NoErr]

\* Parser.next: it returns the node, eof and the error
next(st) ==
    LET tok == Peek(st) IN
    IF tok.Kind = "EOF" THEN [st |-> st, val |-> Nil, eof |-> TRUE, err |-> NoErr]
    ELSE IF tok.Kind = "FN"
    THEN Only([fnDecl \in {parseFnDecl(st)} |->
         [st |-> fnDecl.st, val |-> fnDecl.val, eof |-> FALSE, err |-> fnDecl.err]])
    ELSE IF tok.Kind = "EXTERN"
    THEN Only([externDecl \in {parseExternDecl(st)} |->
         [st |-> externDecl.st, val |-> externDecl.val, eof |-> FALSE,
          err |-> externDecl.err]])
    ELSE LET r == Fail(ReportAndSave(st,
                         Diag("unexpected non-declaration statement on global scope",
                              tok, <<>>)),
                       COMPILER_ERROR_FOUND)
         IN  [st |-> r.st, val |-> Nil, eof |-> FALSE, err |-> r.err]

-----------------------------------------------------------------------------
(* Files and directories.  A path is the sequence of the names on it, a     *)
(* name is its stem and its extension.  A directory entry carries what the  *)
(* file system holds under it: for a directory whether it can be read and   *)
(* its entries in listing order, for a file whether it can be opened.       *)

RECURSIVE parseFileNodesFrom(_, _)
\* Parser.parseFileNodes as parseFile calls it: the loop run to its end
parseFileNodesFrom(st, nodes) ==
    IF st.ghost.stalls # <<>> THEN Diverged(st) ELSE
    Only([r \in {next(st)} |->
    IF r.err # NoErr THEN [st |-> r.st, val |-> Nil, err |-> r.err]
    ELSE IF r.eof THEN Ok(r.st, nodes)
    ELSE parseFileNodesFrom(NextTurn("parseFileNodes", st, r.st),
                            Append(nodes, r.val))])

\* A plausible slip: the parser keeps the module scope it was first given
parseFileKeepsModule(st, lexer, module) ==
    LET st1 == [st EXCEPT !.scopes = NewScope(@, module)]
        file == [node |-> "File", Dir |-> lexer.ParentDirName, Path |-> lexer.Path,
                 Scope |-> Len(st1.scopes), Body |-> <<>>]
        st2 == [st1 EXCEPT !.lex = lexer.tokens, !.path = lexer.Path, !.pos = 1,
                           !.moduleScope = IF @ = NilScope THEN module ELSE @]
    IN  Only([nodes \in {parseFileNodesFrom(st2, <<>>)} |->
        IF nodes.err # NoErr THEN Propagate(nodes)
        ELSE Ok(nodes.st, [file EXCEPT !.Body = nodes.val])])

\* Parser.parseFile
parseFile(st, lexer, module) ==
    LET st1 == [st EXCEPT !.scopes = NewScope(@, module)]
        file == [node |-> "File", Dir |-> lexer.ParentDirName, Path |-> lexer.Path,
                 Scope |-> Len(st1.scopes), Body |-> <<>>]
        st2 == [st1 EXCEPT !.lex = lexer.tokens, !.path = lexer.Path, !.pos = 1,
                           !.moduleScope = module]
    IN  Only([nodes \in {parseFileNodesFrom(st2, <<>>)} |->
        IF nodes.err # NoErr THEN Propagate(nodes)
        ELSE Ok(nodes.st, [file EXCEPT !.Body = nodes.val])])

\* An error of the operating system
OSError(op) == [ptr |-> "os", fmt |-> op, args |-> <<>>]

\* filepath.Ext, filepath.Base, filepath.Dir, filepath.Join
Ext(name) == name.ext

Base(path) == path[Len(path)]

Dir(path) == SubSeq(path, 1, Len(path) - 1)

Join(path, name) == Append(path, name)

\* os.ReadDir(path), dir being what the file system holds at path
ReadDir(dir) ==
    IF dir.readable THEN [entries |-> dir.entries, err |-> NoErr]
    ELSE [entries |-> <<>>, err |-> OSError("open")]

\* lexer.NewFromFilePath(fileDirName, fullPath, collector), entry being what
\* the file system holds at fullPath
NewFromFilePath(fileDirName, fullPath, entry) ==
    IF entry.readable
    THEN [lex |-> [ParentDirName |-> fileDirName, Path |-> fullPath,
                   tokens |-> entry.tokens],
          err |-> NoErr]
    ELSE [lex |-> Nil, err |-> OSError("read")]

\* History: the handler of the walk was called for the entry at fullPath
Visit(st, fullPath) ==
    [st EXCEPT !.ghost.visited = Append(@, fullPath),
               !.ghost.visitsAfterFail = IF st.ghost.failed THEN @ + 1 ELSE @]

\* History: the step of the walk at path is the first to fail, with err
Origin(st, path, err) ==
    [st EXCEPT !.ghost.failed = TRUE,
               !.ghost.origin = IF @ = <<>> THEN <<[path |-> path, err |-> err]>>
                                ELSE @]

\* History: the module of the directory at path has the scope sc
ModuleOf(st, path, sc) ==
    [st EXCEPT !.ghost.dirs = Append(@, [path |-> path, scope |-> sc])]

\* &ast.Module{Scope: scope, IsRoot: isRoot}
Module(scope, isRoot) ==
    [node |-> "Module", Scope |-> scope, IsRoot |-> isRoot,
     Modules |-> <<>>, Files |-> <<>>]

\* fmt.Errorf("failed to read directory %q: %w", path, err)
ReadDirFailed(path, err) ==
    [ptr |-> "Errorf", fmt |-> "failed to read directory %q: %w", args |-> <<>>,
     path |-> path, wraps |-> err]

RECURSIVE buildModuleTree(_, _, _, _)
RECURSIVE buildModuleTreeEntry(_, _, _, _)
RECURSIVE processModuleEntriesFrom(_, _, _, _, _)

\* A plausible slip: the loop goes on to the next entry after a failed one
processModuleEntriesSkipsFailed(st, path, entries, module, i) ==
    IF i > Len(entries) THEN [st |-> st, err |-> NoErr]
    ELSE Only([r \in {buildModuleTreeEntry(st, module, entries[i],
                                           Join(path, entries[i].name))} |->
         processModuleEntriesFrom(r.st, path, entries, module, i + 1)])

\* The loop of Parser.processModuleEntries from the i-th entry on, the
\* handler being the function buildModuleTree passes
processModuleEntriesFrom(st, path, entries, module, i) ==
    IF i > Len(entries) THEN [st |-> st, err |-> NoErr]
    ELSE Only([r \in {buildModuleTreeEntry(st, module, entries[i],
                                           Join(path, entries[i].name))} |->
         IF r.err # NoErr THEN r
         ELSE processModuleEntriesFrom(r.st, path, entries, module, i + 1)])

\* Parser.processModuleEntries
processModuleEntries(st, path, dir, module) ==
    LET read == ReadDir(dir) IN
    IF read.err # NoErr
    THEN [st |-> Origin(st, path, ReadDirFailed(path, read.err)),
          err |-> ReadDirFailed(path, read.err)]
    ELSE processModuleEntriesFrom(st, path, read.entries, module, 1)

\* A plausible slip: the scope of a child module is made without a parent
buildModuleTreeEntryRootScopes(st, module, entry, fullPath) ==
    LET seen == Visit(st, fullPath) IN
    IF entry.isDir
    THEN LET st1 == [seen EXCEPT !.scopes = NewScope(@, NilScope)]
             st2 == [st1 EXCEPT !.modules = Append(@, Module(Len(st1.scopes), FALSE))]
             st3 == [st2 EXCEPT !.modules[module].Modules = Append(@, Len(st2.modules))]
         IN  buildModuleTree(st3, fullPath, entry, Len(st2.modules))
    ELSE IF Ext(entry.name) = ".t"
    THEN LET lexed == NewFromFilePath(Base(Dir(fullPath)), fullPath, entry) IN
         IF lexed.err # NoErr
         THEN [st |-> Origin(seen, fullPath, lexed.err), err |-> lexed.err]
         ELSE Only([file \in {parseFile(seen, lexed.lex, seen.modules[module].Scope)} |->
              IF file.err # NoErr
              THEN [st |-> Origin(file.st, fullPath, file.err), err |-> file.err]
              ELSE [st |-> [file.st EXCEPT !.modules[module].Files = Append(@, file.val)],
                    err |-> NoErr]])
    ELSE [st |-> seen, err |-> NoErr]

\* The function Parser.buildModuleTree passes to processModuleEntries, called
\* for one entry of the directory of module
buildModuleTreeEntry(st, module, entry, fullPath) ==
    LET seen == Visit(st, fullPath) IN
    IF entry.isDir
    THEN LET st1 == [seen EXCEPT !.scopes = NewScope(@, seen.modules[module].Scope)]
             st2 == [st1 EXCEPT !.modules = Append(@, Module(Len(st1.scopes), FALSE))]
             st3 == [st2 EXCEPT !.modules[module].Modules = Append(@, Len(st2.modules))]
         IN  buildModuleTree(st3, fullPath, entry, Len(st2.modules))
    ELSE IF Ext(entry.name) = ".t"
    THEN LET lexed == NewFromFilePath(Base(Dir(fullPath)), fullPath, entry) IN
         IF lexed.err # NoErr
         THEN [st |-> Origin(seen, fullPath, lexed.err), err |-> lexed.err]
         ELSE Only([file \in {parseFile(seen, lexed.lex, seen.modules[module].Scope)} |->
              IF file.err # NoErr
              THEN [st |-> Origin(file.st, fullPath, file.err), err |-> file.err]
              ELSE [st |-> [file.st EXCEPT !.modules[module].Files = Append(@, file.val)],
                    err |-> NoErr]])
    ELSE [st |-> seen, err |-> NoErr]

\* Parser.buildModuleTree
buildModuleTree(st, path, dir, module) ==
    processModuleEntries(ModuleOf(st, path, st.modules[module].Scope),
                         path, dir, module)

-----------------------------------------------------------------------------
(* The symbol table used on its own: scopes are created, names inserted    *)
(* and looked up in any order.                                             *)

NoRet == [op |-> "none"]

\* The history before a parse: nothing failed, nothing was missing
NoGhost == [failed |-> FALSE, skipsAfterFail |-> 0, insertsAfterFail |-> 0,
            missing |-> <<>>, redeclared |-> <<>>, bound |-> <<>>,
            visited |-> <<>>, visitsAfterFail |-> 0, origin |-> <<>>,
            dirs |-> <<>>, turns |-> <<>>, stalls |-> <<>>]

ParserIdle ==
    /\ lex = <<>>
    /\ pos = 1
    /\ collector = <<>>
    /\ moduleScope = NilScope
    /\ pc = "idle"
    /\ body = <<>>
    /\ ghost = NoGhost
    /\ input = <<>>

InitScope ==
    /\ scopes = <<>>
    /\ ret = NoRet
    /\ ParserIdle

ScopeNew ==
    /\ Len(scopes) < MaxScopes
    /\ \E parent \in 0..Len(scopes) :
          /\ scopes' = NewScope(scopes, parent)
          /\ ret' = [op |-> "New", scope |-> Len(scopes) + 1]
    /\ UNCHANGED <<lex, pos, collector, moduleScope, pc, body, ghost, input>>

ScopeInsert ==
    /\ \E s \in 1..Len(scopes), name \in Names, element \in Values :
          LET r == Insert(scopes, s, name, element) IN
          /\ scopes' = r.scopes
          /\ ret' = [op |-> "Insert", scope |-> s, name |-> name,
                     element |-> element, err |-> r.err]
    /\ UNCHANGED <<lex, pos, collector, moduleScope, pc, body, ghost, input>>

ScopeLookup ==
    /\ \E s \in 1..Len(scopes), name \in Names :
          LET r == Lookup(scopes, s, name) IN
          /\ ret' = [op |-> "Lookup", scope |-> s, name |-> name,
                     val |-> r.val, err |-> r.err]
    /\ UNCHANGED <<scopes, lex, pos, collector, moduleScope, pc, body, ghost, input>>

NextScope == ScopeNew \/ ScopeInsert \/ ScopeLookup

SpecScope == InitScope /\ [][NextScope]_vars

-----------------------------------------------------------------------------
(* Properties of the symbol table *)

\* The error Insert returns for a bound name: it carries the name
DuplicateSymbol(name) ==
    Errorf("%s: %s", <<"symbol already defined on scope", name>>)

\* The error Lookup returns when the chain is exhausted: it carries the name
SymbolNotFound(name) ==
    Errorf("%s: %s", <<"symbol not found on scope", name>>)

\* The scopes from s up to the root, s first
RECURSIVE Chain(_, _)
Chain(sc, s) ==
    IF sc[s].parent = NilScope THEN <<s>> ELSE <<s>> \o Chain(sc, sc[s].parent)

\* C1: Insert(name, v) on scope S fails with the duplicate-symbol error
\* carrying the name exactly when name is already bound in S's own mapping,
\* and then leaves every binding as it was; otherwise it binds name to v in S
\* and keeps S's other bindings.  Checked on every Insert step, whatever
\* Inserts came before.
C1_InsertContract ==
    [][ret'.op = "Insert" =>
        LET s == ret'.scope
            name == ret'.name
        IN  IF name \in DOMAIN scopes[s].nodes
            THEN /\ ret'.err = DuplicateSymbol(name)
                 /\ scopes' = scopes
            ELSE /\ ret'.err = NoErr
                 /\ DOMAIN scopes'[s].nodes = DOMAIN scopes[s].nodes \cup {name}
                 /\ scopes'[s].nodes[name] = ret'.element
                 /\ \A n \in DOMAIN scopes[s].nodes :
                       scopes'[s].nodes[n] = scopes[s].nodes[n]
      ]_vars

\* C1 witness: a second Insert of a name into a scope that already holds both
\* names was refused and the earlier, different, binding is still there
C1_Witness ==
    /\ ret.op = "Insert"
    /\ ret.err = DuplicateSymbol(ret.name)
    /\ DOMAIN scopes[ret.scope].nodes = Names
    /\ scopes[ret.scope].nodes[ret.name] # ret.element

\* C2: Insert looks at and changes only the scope it is called on: a name
\* that is free in the scope itself is inserted even if an ancestor binds it,
\* and no Insert, refused or not, changes another scope's bindings, any
\* parent link or the set of scopes.
C2_InsertLocal ==
    [][ret'.op = "Insert" =>
        LET s == ret'.scope
            name == ret'.name
        IN  /\ Len(scopes') = Len(scopes)
            /\ \A t \in 1..Len(scopes) :
                  /\ scopes'[t].parent = scopes[t].parent
                  /\ t # s => scopes'[t] = scopes[t]
            /\ (name \notin DOMAIN scopes[s].nodes /\ scopes[s].parent # NilScope
                 /\ BoundOnChain(scopes, scopes[s].parent, name))
               => (ret'.err = NoErr /\ name \in DOMAIN scopes'[s].nodes)
      ]_vars

\* C2 witness: a name was inserted into a child scope while its parent binds
\* the same name to another value, which the parent still holds
C2_Witness ==
    /\ ret.op = "Insert"
    /\ ret.err = NoErr
    /\ scopes[ret.scope].parent # NilScope
    /\ ret.name \in DOMAIN scopes[scopes[ret.scope].parent].nodes
    /\ scopes[scopes[ret.scope].parent].nodes[ret.name] # ret.element
    /\ scopes[ret.scope].nodes[ret.name] = ret.element

-----------------------------------------------------------------------------
(* The expression parser on its own: ParseExprFrom on every token sequence  *)
(* of up to MaxExprLen tokens over identifiers, literals and one or two     *)
(* operators of each level of the ladder.                                   *)

\* A parser over tokens, as NewWithLex(lex, collector) makes it
NewWithLex(tokens, diags, sc, module) ==
    [lex |-> tokens, path |-> <<>>, pos |-> 1, collector |-> diags, scopes |-> sc,
     moduleScope |-> module, ghost |-> NoGhost]

\* All sequences of at most n elements of S
RECURSIVE SeqsUpTo(_, _)
SeqsUpTo(S, n) ==
    IF n = 0 THEN {<<>>}
    ELSE LET shorter == SeqsUpTo(S, n - 1)
         IN  shorter \cup {Append(q, t) : q \in shorter, t \in S}

ExprTokens ==
    {Token("ID", "a"), Token("INTEGER_LITERAL", "1"), Token("AND", "and"),
     Token("LESS", "<"), Token("PLUS", "+"), Token("MINUS", "-"),
     Token("STAR", "*"), Token("NOT", "not")}

ExprInputs == SeqsUpTo(ExprTokens, MaxExprLen)

InitExpr ==
    /\ lex \in ExprInputs
    /\ scopes = <<>>
    /\ ret = NoRet
    /\ pos = 1
    /\ collector = <<>>
    /\ moduleScope = NilScope
    /\ pc = "idle"
    /\ body = <<>>
    /\ ghost = NoGhost
    /\ input = <<>>

\* ParseExprFrom(expr, filename)
ParseExprFrom ==
    /\ pc = "idle"
    /\ \E r \in {parseExpr(NewWithLex(lex, <<>>, scopes, NilScope))} :
       /\ ret' = [op |-> "ParseExprFrom", val |-> r.val, err |-> r.err]
       /\ pos' = r.st.pos
       /\ collector' = r.st.collector
       /\ ghost' = r.st.ghost
    /\ pc' = "done"
    /\ UNCHANGED <<lex, scopes, moduleScope, body, input>>

NextExpr == ParseExprFrom

SpecExpr == InitExpr /\ [][NextExpr]_vars

-----------------------------------------------------------------------------
(* The reference parse of an expression: the tree is found by splitting the *)
(* token sequence at the LAST binary operator of the LOOSEST level present, *)
(* so that operators of one level nest to the left and tighter levels end   *)
(* up deeper.  It is stated on the token sequence, not on the parser.       *)

RefLevel(kind) ==
    CASE kind \in {"AND", "OR", "EQUAL_EQUAL", "BANG_EQUAL"} -> 1
      [] kind \in {"GREATER", "GREATER_EQ", "LESS", "LESS_EQ"} -> 2
      [] kind \in {"PLUS", "MINUS"} -> 3
      [] kind \in {"STAR", "SLASH"} -> 4
      [] OTHER -> 0

RefIsOperand(tok) ==
    tok.Kind \in {"ID", "INTEGER_LITERAL", "STRING_LITERAL",
                  "TRUE_BOOL_LITERAL", "FALSE_BOOL_LITERAL"}

RefLeaf(toks, i) ==
    IF toks[i].Kind = "ID"
    THEN [node |-> "IdExpr",
          Name |-> [Kind |-> "ID", Lexeme |-> toks[i].Lexeme, Pos |-> i]]
    ELSE [node |-> "LiteralExpr",
          Type |-> [node |-> "BasicType", Kind |-> toks[i].Kind],
          Value |-> toks[i].Lexeme]

Invalid == [node |-> "invalid"]

\* The tree of toks[lo..hi] read as an expression of the given level
\* (1 logical .. 4 factor, 5 unary), or Invalid
RECURSIVE RefParse(_, _, _, _)
RefParse(toks, level, lo, hi) ==
    IF lo > hi THEN Invalid
    ELSE IF level <= 4
    THEN LET binary == {i \in (lo + 1)..hi :
                          /\ RefLevel(toks[i].Kind) = level
                          /\ RefIsOperand(toks[i - 1])}
         IN  IF binary = {} THEN RefParse(toks, level + 1, lo, hi)
             ELSE LET i == CHOOSE b \in binary : \A c \in binary : c <= b
                      l == RefParse(toks, level, lo, i - 1)
                      r == RefParse(toks, level + 1, i + 1, hi)
                  IN  IF l = Invalid \/ r = Invalid THEN Invalid
                      ELSE [node |-> "BinaryExpr", Left |-> l,
                            Op |-> toks[i].Kind, Right |-> r]
    ELSE IF toks[lo].Kind \in {"NOT", "MINUS"}
    THEN LET v == RefParse(toks, 5, lo + 1, hi)
         IN  IF v = Invalid THEN Invalid
             ELSE [node |-> "UnaryExpr", Op |-> toks[lo].Kind, Value |-> v]
    ELSE IF lo = hi /\ RefIsOperand(toks[lo]) THEN RefLeaf(toks, lo)
    ELSE Invalid

Kinds(toks) == [i \in 1..Len(toks) |-> toks[i].Kind]

\* C5: on every token sequence over identifiers, literals and the ladder's
\* operators, parseExpr reads the whole sequence without error exactly when
\* the sequence has a reference parse, and then returns the reference tree
\* (logical < comparison < term < factor < unary < primary, equal levels
\* folding to the left, a prefix operator applying to the unary expression
\* after it): 1 + a * a is 1 + (a * a), 1 * a + a is (1 * a) + a and
\* not a and a is (not a) and a.
C5_PrecedenceLadder ==
    (pc = "done" /\ ret.op = "ParseExprFrom") =>
        LET ref == RefParse(lex, 1, 1, Len(lex))
            whole == ret.err = NoErr /\ pos = Len(lex) + 1
            Id(i) == [node |-> "IdExpr",
                      Name |-> [Kind |-> "ID", Lexeme |-> "a", Pos |-> i]]
            One == [node |-> "LiteralExpr",
                    Type |-> [node |-> "BasicType", Kind |-> "INTEGER_LITERAL"],
                    Value |-> "1"]
            Bin(l, op, r) == [node |-> "BinaryExpr", Left |-> l, Op |-> op, Right |-> r]
        IN  /\ whole <=> ref # Invalid
            /\ whole => ret.val = ref
            /\ Kinds(lex) = <<"INTEGER_LITERAL", "PLUS", "ID", "STAR", "ID">>
                 => ret.val = Bin(One, "PLUS", Bin(Id(3), "STAR", Id(5)))
            /\ Kinds(lex) = <<"INTEGER_LITERAL", "STAR", "ID", "PLUS", "ID">>
                 => ret.val = Bin(Bin(One, "STAR", Id(3)), "PLUS", Id(5))
            /\ Kinds(lex) = <<"NOT", "ID", "AND", "ID">>
                 => ret.val = Bin([node |-> "UnaryExpr", Op |-> "NOT", Value |-> Id(2)],
                                  "AND", Id(4))

\* C5 witness: 1 + a * a has been parsed, to a sum whose right operand is
\* the product
C5_Witness ==
    /\ pc = "done" /\ ret.op = "ParseExprFrom"
    /\ Kinds(lex) = <<"INTEGER_LITERAL", "PLUS", "ID", "STAR", "ID">>
    /\ ret.err = NoErr
    /\ ret.val.Op = "PLUS"
    /\ ret.val.Right.node = "BinaryExpr"
    /\ ret.val.Right.Op = "STAR"

-----------------------------------------------------------------------------
(* Parameter lists: parseFunctionParams on every list of up to MaxParams    *)
(* items, an item being a parameter (name and type) or an ellipsis, with or *)
(* without a comma after it, followed by `)`, by `{` or by the end of input *)

\* Concatenation of a sequence of sequences
RECURSIVE Flatten(_)
Flatten(seqs) == IF seqs = <<>> THEN <<>> ELSE Head(seqs) \o Flatten(Tail(seqs))

ParamTypes == {"int", "*int"}

TypeTokens(type) ==
    IF type = "int" THEN <<Token("INT_TYPE", "int")>>
    ELSE <<Token("STAR", "*"), Token("INT_TYPE", "int")>>

\* The ExprType a type of ParamTypes stands for
TypeNode(type) ==
    IF type = "int" THEN [node |-> "BasicType", Kind |-> "INT_TYPE"]
    ELSE [node |-> "PointerType", Type |-> [node |-> "BasicType", Kind |-> "INT_TYPE"]]

ParamItems ==
    [kind : {"param"}, name : Names, type : ParamTypes, comma : BOOLEAN]
    \cup [kind : {"ellipsis"}, name : {""}, type : {""}, comma : BOOLEAN]

ParamTails == {"CLOSE_PAREN", "OPEN_CURLY", "EOF"}

CommaTokens(item) == IF item.comma THEN <<Token("COMMA", ",")>> ELSE <<>>

ItemTokens(item) ==
    (IF item.kind = "ellipsis" THEN <<Token("DOT_DOT_DOT", "...")>>
     ELSE <<Token("ID", item.name)>> \o TypeTokens(item.type))
    \o CommaTokens(item)

TailTokens(tail) ==
    CASE tail = "CLOSE_PAREN" -> <<Token("CLOSE_PAREN", ")")>>
      [] tail = "OPEN_CURLY" -> <<Token("OPEN_CURLY", "{")>>
      [] tail = "SEMICOLON" -> <<Token("SEMICOLON", ";")>>
      [] OTHER -> <<>>

RenderParams(in) ==
    <<Token("OPEN_PAREN", "(")>>
    \o Flatten([i \in 1..Len(in.items) |-> ItemTokens(in.items[i])])
    \o TailTokens(in.tail)

ParamInputs == [items : SeqsUpTo(ParamItems, MaxParams), tail : ParamTails]

InitParams ==
    /\ input \in ParamInputs
    /\ lex = RenderParams(input)
    /\ scopes = <<>>
    /\ ret = NoRet
    /\ pos = 1
    /\ collector = <<>>
    /\ moduleScope = NilScope
    /\ pc = "idle"
    /\ body = <<>>
    /\ ghost = NoGhost

\* Parser.parseFunctionParams on a parser at the start of the list
ParseFunctionParams ==
    /\ pc = "idle"
    /\ \E r \in {parseFunctionParams(NewWithLex(lex, <<>>, scopes, NilScope))} :
       /\ ret' = [op |-> "parseFunctionParams", val |-> r.val, err |-> r.err]
       /\ pos' = r.st.pos
       /\ collector' = r.st.collector
       /\ ghost' = r.st.ghost
    /\ pc' = "done"
    /\ UNCHANGED <<lex, scopes, moduleScope, body, input>>

NextParams == ParseFunctionParams

SpecParams == InitParams /\ [][NextParams]_vars

\* Where item i of the list starts in the token stream
ItemStart(items, i) ==
    2 + Len(Flatten([j \in 1..(i - 1) |-> ItemTokens(items[j])]))

\* Whether the fields are the given parameter items, in their order
FieldsAre(fields, items) ==
    /\ Len(fields) = Len(items)
    /\ \A i \in 1..Len(items) :
          /\ fields[i].Name.Lexeme = items[i].name
          /\ fields[i].Type = TypeNode(items[i].type)
    /\ \A i, j \in 1..Len(fields) : i < j => fields[i].Name.Pos < fields[j].Name.Pos

\* C7: when the parameter loop meets an ellipsis, the list is accepted with
\* IsVariadic = TRUE and the parameters before the ellipsis as its fields, in
\* source order, exactly if `)` follows the ellipsis immediately; if anything
\* else follows, the only diagnostic is "... is only allowed at the end of
\* parameter list" at the ellipsis, the sentinel is returned and there is no
\* field list.  An accepted list without ellipsis has IsVariadic = FALSE and
\* all its parameters as fields.
C7_Variadic ==
    (pc = "done" /\ ret.op = "parseFunctionParams") =>
        LET items == input.items
            ellipses == {i \in 1..Len(items) : items[i].kind = "ellipsis"}
        IN  IF ellipses = {}
            THEN /\ input.tail = "CLOSE_PAREN" <=> ret.err = NoErr
                 /\ ret.err = NoErr =>
                       /\ ret.val.IsVariadic = FALSE
                       /\ FieldsAre(ret.val.Fields, items)
            ELSE LET k == CHOOSE e \in ellipses : \A f \in ellipses : e <= f
                     closed == /\ ~items[k].comma
                               /\ k = Len(items)
                               /\ input.tail = "CLOSE_PAREN"
                 IN  IF closed
                     THEN /\ ret.err = NoErr
                          /\ ret.val.IsVariadic = TRUE
                          /\ FieldsAre(ret.val.Fields, SubSeq(items, 1, k - 1))
                          /\ collector = <<>>
                     ELSE /\ ret.err = COMPILER_ERROR_FOUND
                          /\ ret.val = Nil
                          /\ collector =
                               <<[Message |-> "... is only allowed at the end of parameter list",
                                  Pos |-> ItemStart(items, k), Args |-> <<>>]>>

\* C7 witness: (a int, b *int, ...) was accepted as variadic with two fields
C7_Witness ==
    /\ pc = "done" /\ ret.op = "parseFunctionParams"
    /\ input.tail = "CLOSE_PAREN"
    /\ input.items = <<[kind |-> "param", name |-> "a", type |-> "int", comma |-> TRUE],
                       [kind |-> "param", name |-> "b", type |-> "*int", comma |-> TRUE],
                       [kind |-> "ellipsis", name |-> "", type |-> "", comma |-> FALSE]>>
    /\ ret.err = NoErr
    /\ ret.val.IsVariadic
    /\ Len(ret.val.Fields) = 2

\* C7 witness of the misuse: (a int, ..., b int) was refused with the
\* ellipsis diagnostic
C7_WitnessMisuse ==
    /\ pc = "done" /\ ret.op = "parseFunctionParams"
    /\ input.items = <<[kind |-> "param", name |-> "a", type |-> "int", comma |-> TRUE],
                       [kind |-> "ellipsis", name |-> "", type |-> "", comma |-> TRUE],
                       [kind |-> "param", name |-> "b", type |-> "int", comma |-> FALSE]>>
    /\ ret.err = COMPILER_ERROR_FOUND
    /\ Len(collector) = 1

-----------------------------------------------------------------------------
(* Variable statements: parseVarFrom on every statement of 1..MaxVars       *)
(* names, each with or without a type, `:=` or `=`, 0..MaxVars comma        *)
(* separated initializers, and then `;`, `)` or the end of input.           *)

VarNameItems == [name : Names, type : ParamTypes \cup {""}]

VarExprs == {"1", "a+1", "-a"}

ExprTokensOf(e) ==
    CASE e = "1" -> <<Token("INTEGER_LITERAL", "1")>>
      [] e = "a+1" -> <<Token("ID", "a"), Token("PLUS", "+"), Token("INTEGER_LITERAL", "1")>>
      [] e = "-a" -> <<Token("MINUS", "-"), Token("ID", "a")>>

VarOps == {"COLON_EQUAL", "EQUAL"}

VarTails == {"SEMICOLON", "CLOSE_PAREN", "EOF"}

VarInputs ==
    [names : SeqsUpTo(VarNameItems, MaxVars) \ {<<>>}, op : VarOps,
     exprs : SeqsUpTo(VarExprs, MaxVars), tail : VarTails]

NameTokens(item) ==
    <<Token("ID", item.name)>>
    \o (IF item.type = "" THEN <<>> ELSE TypeTokens(item.type))

\* The token sequences of parts, with a comma between two neighbours
RECURSIVE CommaSeparated(_)
CommaSeparated(parts) ==
    IF parts = <<>> THEN <<>>
    ELSE IF Len(parts) = 1 THEN parts[1]
    ELSE parts[1] \o <<Token("COMMA", ",")>> \o CommaSeparated(Tail(parts))

RenderVar(in) ==
    CommaSeparated([i \in 1..Len(in.names) |-> NameTokens(in.names[i])])
    \o <<Token(in.op, IF in.op = "EQUAL" THEN "=" ELSE ":=")>>
    \o CommaSeparated([i \in 1..Len(in.exprs) |-> ExprTokensOf(in.exprs[i])])
    \o TailTokens(in.tail)

InitVar ==
    /\ input \in VarInputs
    /\ lex = RenderVar(input)
    /\ scopes = <<>>
    /\ ret = NoRet
    /\ pos = 1
    /\ collector = <<>>
    /\ moduleScope = NilScope
    /\ pc = "idle"
    /\ body = <<>>
    /\ ghost = NoGhost

\* parseVarFrom(filename, input)
parseVarFrom ==
    /\ pc = "idle"
    /\ \E r \in {ParseIdStmt(NewWithLex(lex, <<>>, scopes, NilScope))} :
       /\ ret' = [op |-> "parseVarFrom", val |-> r.val, err |-> r.err]
       /\ pos' = r.st.pos
       /\ collector' = r.st.collector
       /\ ghost' = r.st.ghost
    /\ pc' = "done"
    /\ UNCHANGED <<lex, scopes, moduleScope, body, input>>

NextVar == parseVarFrom

SpecVar == InitVar /\ [][NextVar]_vars

\* Where name i and initializer i start in the token stream, and where
\* initializer i ends
NameStart(in, i) ==
    1 + Len(CommaSeparated([j \in 1..(i - 1) |-> NameTokens(in.names[j])]))
      + (IF i > 1 THEN 1 ELSE 0)

ExprStart(in, i) ==
    Len(CommaSeparated([j \in 1..Len(in.names) |-> NameTokens(in.names[j])])) + 2
      + Len(CommaSeparated([j \in 1..(i - 1) |-> ExprTokensOf(in.exprs[j])]))
      + (IF i > 1 THEN 1 ELSE 0)

ExprEnd(in, i) == ExprStart(in, i) + Len(ExprTokensOf(in.exprs[i])) - 1

\* Whether v is the VarStmt of name i of the statement: the name, its type
\* if one was written, the i-th initializer, and the flag of the operator
VarIs(v, in, toks, i) ==
    /\ v.node = "VarStmt"
    /\ v.Name.Lexeme = in.names[i].name
    /\ v.Name.Pos = NameStart(in, i)
    /\ v.Type = (IF in.names[i].type = "" THEN Nil ELSE TypeNode(in.names[i].type))
    /\ v.NeedsInference = (in.names[i].type = "")
    /\ v.Value = RefParse(toks, 1, ExprStart(in, i), ExprEnd(in, i))
    /\ v.Decl = (in.op = "COLON_EQUAL")

\* C6: a variable statement with n names and m initializers is accepted only
\* if n = m (and is accepted if n = m and a terminator follows); with n # m
\* before a terminator the error is the count mismatch "n != m".  On success
\* one name gives a VarStmt and several give a MultiVarStmt whose i-th
\* variable carries the i-th initializer; every variable, and the
\* MultiVarStmt, carries the flag that is TRUE exactly for `:=`.
C6_VarCounts ==
    (pc = "done" /\ ret.op = "parseVarFrom") =>
        LET n == Len(input.names)
            m == Len(input.exprs)
        IN  /\ ret.err = NoErr <=> (n = m /\ input.tail # "EOF")
            /\ (n # m /\ input.tail # "EOF") =>
                  /\ ret.err = Errorf("%d != %d", <<ToString(n), ToString(m)>>)
                  /\ ret.val = Nil
            /\ (ret.err = NoErr /\ n = 1) => VarIs(ret.val, input, lex, 1)
            /\ (ret.err = NoErr /\ n > 1) =>
                  /\ ret.val.node = "MultiVarStmt"
                  /\ ret.val.IsDecl = (input.op = "COLON_EQUAL")
                  /\ Len(ret.val.Variables) = n
                  /\ \A i \in 1..n : VarIs(ret.val.Variables[i], input, lex, i)

\* C6 witness: a, b = 1, a+1; was parsed to a MultiVarStmt of two
\* assignments
C6_Witness ==
    /\ pc = "done" /\ ret.op = "parseVarFrom"
    /\ Len(input.names) = 2 /\ input.exprs = <<"1", "a+1">> /\ input.op = "EQUAL"
    /\ ret.err = NoErr
    /\ ret.val.node = "MultiVarStmt"
    /\ ~ret.val.IsDecl
    /\ ret.val.Variables[2].Value.node = "BinaryExpr"

\* C6 witness of the mismatch: a, b := 1; was refused
C6_WitnessMismatch ==
    /\ pc = "done" /\ ret.op = "parseVarFrom"
    /\ Len(input.names) = 2 /\ Len(input.exprs) = 1 /\ input.tail = "SEMICOLON"
    /\ ret.err = Errorf("%d != %d", <<"2", "1">>)

-----------------------------------------------------------------------------
(* Whole files.  A file is a few plain functions, then one declaration of   *)
(* Snippets in which at most one token was deleted or replaced, then        *)
(* possibly one more plain function.                                        *)

WordToken(w) ==
    CASE w = "fn" -> Token("FN", w)
      [] w = "extern" -> Token("EXTERN", w)
      [] w = "return" -> Token("RETURN", w)
      [] w = "if" -> Token("IF", w)
      [] w = "elif" -> Token("ELIF", w)
      [] w = "else" -> Token("ELSE", w)
      [] w = "for" -> Token("FOR", w)
      [] w = "while" -> Token("WHILE", w)
      [] w = "(" -> Token("OPEN_PAREN", w)
      [] w = ")" -> Token("CLOSE_PAREN", w)
      [] w = "{" -> Token("OPEN_CURLY", w)
      [] w = "}" -> Token("CLOSE_CURLY", w)
      [] w = "," -> Token("COMMA", w)
      [] w = ";" -> Token("SEMICOLON", w)
      [] w = "." -> Token("DOT", w)
      [] w = "..." -> Token("DOT_DOT_DOT", w)
      [] w = ":=" -> Token("COLON_EQUAL", w)
      [] w = "=" -> Token("EQUAL", w)
      [] w = "+" -> Token("PLUS", w)
      [] w = "<" -> Token("LESS", w)
      [] w = "*" -> Token("STAR", w)
      [] w = "-" -> Token("MINUS", w)
      [] w = "and" -> Token("AND", w)
      [] w = "int" -> Token("INT_TYPE", w)
      [] w = "i32" -> Token("I32_TYPE", w)
      [] w = "0" -> Token("INTEGER_LITERAL", w)
      [] w = "1" -> Token("INTEGER_LITERAL", w)
      [] OTHER -> Token("ID", w)

Words(ws) == [i \in 1..Len(ws) |-> WordToken(ws[i])]

\* fn <name>() {}
PlainFn(name) == Words(<<"fn", name, "(", ")", "{", "}">>)

Snippets ==
    {"plain a", "plain b", "params", "extern", "cond", "for", "while", "vars",
     "main", "ops"}

SnippetTokens(id) ==
    CASE id = "plain a" -> PlainFn("a")
      [] id = "plain b" -> PlainFn("b")
      [] id = "params" ->
           Words(<<"fn", "b", "(", "a", "int", ",", "...", ")", "int", "{",
                   "return", "a", "+", "1", ";", "}">>)
      [] id = "extern" ->
           Words(<<"extern", "a", "{", "fn", "b", "(", "a", "*", "int", ")", ";", "}">>)
      [] id = "cond" ->
           Words(<<"fn", "a", "(", ")", "{", "if", "a", "<", "1", "{", "}",
                   "elif", "a", "{", "}", "else", "{", "}", "}">>)
      [] id = "for" ->
           Words(<<"fn", "b", "(", ")", "{", "for", "(", "a", ":=", "1", ";", "a", ";",
                   "a", "=", "1", ")", "{", "}", "}">>)
      [] id = "while" ->
           Words(<<"fn", "a", "(", ")", "{", "while", "a", ".", "b", "{",
                   "b", "(", "1", ")", ";", "}", "}">>)
      [] id = "vars" ->
           Words(<<"fn", "b", "(", ")", "{", "a", ",", "b", "int", "=", "1", ",",
                   "(", "a", ")", ";", "return", ";", "}">>)
      [] id = "main" ->
           Words(<<"fn", "main", "(", ")", "i32", "{", "return", "0", ";", "}">>)
      [] id = "ops" ->
           Words(<<"fn", "a", "(", ")", "{", "return", "-", "a", "*", "b", "and",
                   "1", ";", "}">>)

\* What an edit puts in the place of a token: nothing, or another token
EditWords == {"", "b", ";"}

NoEdit == [at |-> 0, word |-> ""]

EditsOf(id) == {NoEdit} \cup [at : 1..Len(SnippetTokens(id)), word : EditWords]

ApplyEdit(toks, edit) ==
    IF edit.at = 0 THEN toks
    ELSE SubSeq(toks, 1, edit.at - 1)
         \o (IF edit.word = "" THEN <<>> ELSE <<WordToken(edit.word)>>)
         \o SubSeq(toks, edit.at + 1, Len(toks))

FileInputs ==
    UNION {[before : SeqsUpTo(Names, MaxDeclsBefore), decl : {id},
            edit : EditsOf(id), after : SeqsUpTo(Names, 1)] : id \in Snippets}

RenderFile(in) ==
    Flatten([i \in 1..Len(in.before) |-> PlainFn(in.before[i])])
    \o ApplyEdit(SnippetTokens(in.decl), in.edit)
    \o Flatten([i \in 1..Len(in.after) |-> PlainFn(in.after[i])])

InitFile ==
    /\ input \in FileInputs
    /\ lex = RenderFile(input)
    /\ scopes = <<>>
    /\ ret = NoRet
    /\ pos = 1
    /\ collector = <<>>
    /\ moduleScope = NilScope
    /\ pc = "idle"
    /\ body = <<>>
    /\ ghost = NoGhost

\* The parser as the state holds it
ParserState ==
    [lex |-> lex, path |-> <<>>, pos |-> pos, collector |-> collector,
     scopes |-> scopes, moduleScope |-> moduleScope, ghost |-> ghost]

\* Parser.ParseFileAsProgram up to the loop of parseFileNodes: the universe,
\* the module scope and, in parseFile, the file scope are made; the parser is
\* set to the lexer and the module scope
ParseFileAsProgram ==
    /\ pc = "idle"
    /\ LET universe == NewScope(scopes, NilScope)
           module == NewScope(universe, Len(universe))
           file == NewScope(module, Len(module))
       IN  /\ scopes' = file
           /\ moduleScope' = Len(module)
    /\ pc' = "nodes"
    /\ UNCHANGED <<ret, lex, pos, collector, body, ghost, input>>

\* What ParseFileAsProgram returns when parseFileNodes has returned nodes
Program(nodes) ==
    [node |-> "Program",
     Root |-> [node |-> "Module", IsRoot |-> TRUE, Scope |-> moduleScope,
               Files |-> <<[node |-> "File", Scope |-> moduleScope + 1,
                            Body |-> nodes]>>]]

\* One turn of the loop of Parser.parseFileNodes, and on its exit the return
\* of parseFile and ParseFileAsProgram
parseFileNodes ==
    /\ pc = "nodes"
    /\ \E r \in {next(ParserState)} :
       /\ pos' = r.st.pos
       /\ collector' = r.st.collector
       /\ scopes' = r.st.scopes
       /\ \/ /\ r.err # NoErr
             /\ ghost' = r.st.ghost
             /\ ret' = IF r.err = Diverges THEN ret
                       ELSE [op |-> "ParseFileAsProgram", val |-> Nil, err |-> r.err]
             /\ pc' = IF r.st.ghost.stalls # <<>> THEN "looping"
                      ELSE IF IsFatal(r.err) THEN "exited" ELSE "done"
             /\ body' = body
          \/ /\ r.err = NoErr /\ r.eof
             /\ ghost' = r.st.ghost
             /\ ret' = [op |-> "ParseFileAsProgram", val |-> Program(body),
                        err |-> NoErr]
             /\ pc' = "done"
             /\ body' = body
          \/ /\ r.err = NoErr /\ ~r.eof
             /\ ghost' = NextTurn("parseFileNodes", ParserState, r.st).ghost
             /\ body' = Append(body, r.val)
             /\ pc' = IF r.st.pos > pos THEN pc ELSE "looping"
             /\ UNCHANGED ret
    /\ UNCHANGED <<lex, moduleScope, input>>

NextFile == ParseFileAsProgram \/ parseFileNodes

SpecFile == InitFile /\ [][NextFile]_vars

-----------------------------------------------------------------------------
(* Properties of the parse of a file *)

Done == pc \in {"done", "exited"}

RedeclarationDiag(name) ==
    \E i \in DOMAIN collector :
        /\ collector[i].Message = "function '%s' already declared on scope"
        /\ collector[i].Args = <<name>>

\* C4: when parseFnDecl has parsed a function whose name is already bound in
\* the module scope, the collector holds the diagnostic "function '<name>'
\* already declared on scope", the error returned is the duplicate-symbol
\* error of Scope.Insert, and no FunctionDecl is returned.
C4_Redeclaration ==
    \A i \in DOMAIN ghost.redeclared :
        /\ RedeclarationDiag(ghost.redeclared[i])
        /\ ret.err = DuplicateSymbol(ghost.redeclared[i])
        /\ ret.val = Nil

\* C8: every expected token found missing by a parsing function is reported
\* to the collector as a diagnostic, and that function returns
\* COMPILER_ERROR_FOUND and nothing else.
C8_MissingTokenReported ==
    \A i \in DOMAIN ghost.missing :
        /\ ghost.missing[i].reported
        /\ collector # <<>>
        /\ ghost.missing[i].err = COMPILER_ERROR_FOUND

\* C9: when the parse of a file returns COMPILER_ERROR_FOUND, the collector
\* holds at least one diagnostic recorded during that parse.
C9_SentinelMeansReported ==
    (Done /\ ret.err = COMPILER_ERROR_FOUND) => collector # <<>>

\* C10: no error recovery within a file.  After a parsing function has
\* returned an error no token is consumed and no binding is added to a
\* scope; the error ends the parse of the file, which returns it and no
\* node; and the parse of one file records at most one diagnostic.
C10_NoRecovery ==
    /\ ghost.skipsAfterFail = 0
    /\ ghost.insertsAfterFail = 0
    /\ ghost.failed => (Done /\ ret.err # NoErr /\ ret.val = Nil)
    /\ (Done /\ ret.err # NoErr) => ghost.failed
    /\ Len(collector) <= 1

\* A function was parsed and bound, then a declaration failed with a
\* diagnostic while tokens of the file were still unread
C10_Witness ==
    /\ Done
    /\ ghost.failed
    /\ Len(body) >= 1
    /\ Len(collector) = 1
    /\ pos + 6 <= Len(lex)
    /\ DOMAIN scopes[moduleScope].nodes # {}

-----------------------------------------------------------------------------
(* Directory trees.  The root directory holds a few plain entries, then one *)
(* entry that is any file or any subdirectory of up to MaxSubEntries        *)
(* entries, then possibly one more entry.  Source files hold one function,  *)
(* a function and then a syntax error, or a malformed field access; a file  *)
(* may be unreadable, and so may a directory.                               *)

Name(stem, ext) == [stem |-> stem, ext |-> ext]

FileTokens(stem) ==
    CASE stem = "a" -> PlainFn("a")
      [] stem = "a2" -> PlainFn("a")
      [] stem = "b" -> PlainFn("b")
      [] stem = "bad" -> PlainFn("b") \o Words(<<"1">>)
      [] stem = "fatal" -> Words(<<"fn", "a", "(", ")", "{", "a", ".", ";", "}">>)
      [] OTHER -> <<>>

FileEntry(stem, ext) ==
    [name |-> Name(stem, ext), isDir |-> FALSE, readable |-> stem # "locked",
     tokens |-> FileTokens(stem)]

DirEntry(stem, ext, readable, entries) ==
    [name |-> Name(stem, ext), isDir |-> TRUE, readable |-> readable,
     entries |-> entries]

DistinctNames(entries) ==
    \A i, j \in DOMAIN entries : entries[i].name = entries[j].name => i = j

Leaves ==
    {FileEntry("a", ".t"), FileEntry("a2", ".t"), FileEntry("b", ".t"),
     FileEntry("bad", ".t"), FileEntry("fatal", ".t"), FileEntry("locked", ".t"),
     FileEntry("notes", ".md")}

\* Directories inside a subdirectory; one has the name of a source file
InnerDirs ==
    {DirEntry("in", ".t", TRUE, <<FileEntry("a", ".t")>>),
     DirEntry("out", "", FALSE, <<>>)}

SubDirs ==
    {DirEntry("sub", "", TRUE, es) :
        es \in {q \in SeqsUpTo(Leaves \cup InnerDirs, MaxSubEntries) : DistinctNames(q)}}
    \cup {DirEntry("sub", "", FALSE, <<>>)}

EntriesBefore ==
    {FileEntry("a", ".t"), FileEntry("notes", ".md"),
     DirEntry("pre", "", TRUE, <<FileEntry("a", ".t")>>)}

EntriesAfter ==
    {FileEntry("a", ".t"), FileEntry("b", ".t"),
     DirEntry("post", "", TRUE, <<FileEntry("b", ".t")>>)}

RootEntries ==
    {<<>>} \cup
    {q \in {before \o <<e>> \o after :
                before \in SeqsUpTo(EntriesBefore, MaxEntriesBefore),
                e \in Leaves \cup SubDirs,
                after \in SeqsUpTo(EntriesAfter, 1)} : DistinctNames(q)}

DirInputs ==
    {DirEntry("root", "", TRUE, es) : es \in RootEntries}
    \cup {DirEntry("root", "", FALSE, <<>>)}

InitDir ==
    /\ input \in DirInputs
    /\ lex = <<>>
    /\ scopes = <<>>
    /\ ret = NoRet
    /\ pos = 1
    /\ collector = <<>>
    /\ moduleScope = NilScope
    /\ pc = "idle"
    /\ body = <<>>
    /\ ghost = NoGhost

\* Parser.ParseModuleDir(path) on a parser made by New(collector); input is
\* what the file system holds at path
ParseModuleDir ==
    /\ pc = "idle"
    /\ LET universe == NewScope(scopes, NilScope)
           root == Module(Len(universe), TRUE)
           p == [lex |-> lex, path |-> <<>>, pos |-> pos, collector |-> collector,
                 scopes |-> universe, moduleScope |-> moduleScope, ghost |-> ghost,
                 modules |-> <<root>>]
       IN  \E r \in {buildModuleTree(p, <<input.name>>, input, 1)} :
           /\ ret' = IF r.err # NoErr
                     THEN [op |-> "ParseModuleDir", val |-> Nil, err |-> r.err]
                     ELSE [op |-> "ParseModuleDir",
                           val |-> [node |-> "Program", Root |-> 1,
                                    modules |-> r.st.modules],
                           err |-> NoErr]
           /\ pc' = IF IsFatal(r.err) THEN "exited" ELSE "done"
           /\ lex' = r.st.lex
           /\ pos' = r.st.pos
           /\ collector' = r.st.collector
           /\ scopes' = r.st.scopes
           /\ moduleScope' = r.st.moduleScope
           /\ ghost' = r.st.ghost
    /\ UNCHANGED <<body, input>>

NextDir == ParseModuleDir

SpecDir == InitDir /\ [][NextDir]_vars

-----------------------------------------------------------------------------
(* Properties of the walk of a directory tree *)

Last(q) == q[Len(q)]

IsSource(entry) == ~entry.isDir /\ Ext(entry.name) = ".t"

IsSubdir(entry) == entry.isDir

Subdirs(dir) == SelectSeq(dir.entries, IsSubdir)

Sources(dir) == SelectSeq(dir.entries, IsSource)

\* The name of the function a source file of the inputs declares
DeclaredIn(entry) == IF entry.name.stem = "a2" THEN "a" ELSE entry.name.stem

RECURSIVE EndsAtRoot(_, _, _)
EndsAtRoot(sc, s, fuel) ==
    IF sc[s].parent = NilScope THEN TRUE
    ELSE IF fuel = 0 THEN FALSE
    ELSE EndsAtRoot(sc, sc[s].parent, fuel - 1)

\* Module m of the tree returned mirrors the directory dir at path
RECURSIVE Mirrors(_, _, _)
Mirrors(m, dir, path) ==
    LET module == ret.val.modules[m] IN
    /\ Len(module.Modules) = Len(Subdirs(dir))
    /\ Len(module.Files) = Len(Sources(dir))
    /\ \A i \in DOMAIN module.Files :
          LET file == module.Files[i] IN
          /\ file.node = "File"
          /\ file.Path = Join(path, Sources(dir)[i].name)
          /\ file.Dir = Base(path)
          /\ scopes[file.Scope].parent = module.Scope
          /\ Len(file.Body) = 1
          /\ \A k \in DOMAIN file.Body :
                /\ file.Body[k].node = "FunctionDecl"
                /\ file.Body[k].Name.Lexeme = DeclaredIn(Sources(dir)[i])
                /\ scopes[file.Body[k].Scope].parent = module.Scope
    /\ \A i \in DOMAIN module.Modules :
          LET child == ret.val.modules[module.Modules[i]] IN
          /\ ~child.IsRoot
          /\ child.Scope # module.Scope
          /\ scopes[child.Scope].parent = module.Scope
          /\ Mirrors(module.Modules[i], Subdirs(dir)[i], Join(path, Subdirs(dir)[i].name))

\* The number of directories of the tree under dir, dir included
RECURSIVE CountDirs(_)
CountDirs(dir) ==
    LET sub == Subdirs(dir)
        counts == [i \in DOMAIN sub |-> CountDirs(sub[i])]
        sum[i \in 0..Len(sub)] == IF i = 0 THEN 0 ELSE sum[i - 1] + counts[i]
    IN  1 + sum[Len(sub)]

\* C12: after a successful ParseModuleDir the module tree mirrors the
\* directory tree: a module has one child module per subdirectory and one
\* File per `.t` file, both in listing order, and nothing for other entries;
\* the root module's scope has no parent, a child module's scope has its
\* parent module's scope as parent, the scope of a file and of each of its
\* functions has the scope of the file's module as parent, and every scope
\* chain ends at a scope without parent.
C12_TreeMirrors ==
    (Done /\ ret.err = NoErr) =>
        /\ ret.val.node = "Program"
        /\ ret.val.modules[ret.val.Root].IsRoot
        /\ scopes[ret.val.modules[ret.val.Root].Scope].parent = NilScope
        /\ Len(ret.val.modules) = CountDirs(input)
        /\ Mirrors(ret.val.Root, input, <<input.name>>)
        /\ \A s \in DOMAIN scopes : EndsAtRoot(scopes, s, Len(scopes))

\* The tree has a root file listed after a subdirectory that holds a file
\* and a directory with a file of its own; an entry that is no source file
\* was listed too
C12_Witness ==
    /\ Done /\ ret.err = NoErr
    /\ Len(ret.val.modules) = 3
    /\ Len(ret.val.modules[1].Files) = 1
    /\ Len(ret.val.modules[2].Files) = 1
    /\ Len(ret.val.modules[3].Files) = 1
    /\ input.entries[1].name = Name("notes", ".md")
    /\ Len(ghost.visited) = 6

\* The directory tree under dir can be read and parsed, and no directory of
\* it holds two source files that declare the same function
RECURSIVE Clean(_)
Clean(dir) ==
    /\ dir.readable
    /\ \A i \in DOMAIN dir.entries :
          LET e == dir.entries[i] IN
          /\ e.isDir => Clean(e)
          /\ IsSource(e) => e.name.stem \in {"a", "a2", "b"}
          /\ \A j \in DOMAIN dir.entries :
                (IsSource(e) /\ IsSource(dir.entries[j])
                    /\ DeclaredIn(e) = DeclaredIn(dir.entries[j])) => i = j

\* C13: every function ParseModuleDir has parsed is bound, under its name,
\* in the scope of the module of the directory that holds its file, and in
\* no other way; a name is bound once in a scope; distinct directories have
\* distinct module scopes; and the build fails on a readable, well-formed
\* tree exactly when a directory holds two files declaring the same name.
C13_ModuleScopes ==
    Done =>
        /\ \A i, j \in DOMAIN ghost.dirs :
              ghost.dirs[i].scope = ghost.dirs[j].scope => i = j
        /\ \A i \in DOMAIN ghost.bound :
              LET b == ghost.bound[i] IN
              /\ \E k \in DOMAIN ghost.dirs :
                    /\ ghost.dirs[k].path = Dir(b.path)
                    /\ ghost.dirs[k].scope = b.scope
              /\ b.name \in DOMAIN scopes[b.scope].nodes
              /\ \A j \in DOMAIN ghost.bound :
                    (ghost.bound[j].name = b.name /\ ghost.bound[j].scope = b.scope)
                        => i = j
        /\ (ret.err = NoErr) <=> Clean(input)
        /\ ret.err = NoErr =>
              \A m \in DOMAIN ret.val.modules :
                 \A f \in DOMAIN ret.val.modules[m].Files :
                    LET file == ret.val.modules[m].Files[f] IN
                    \A k \in DOMAIN file.Body :
                       /\ file.Body[k].Name.Lexeme
                              \in DOMAIN scopes[ret.val.modules[m].Scope].nodes
                       /\ scopes[ret.val.modules[m].Scope].nodes[file.Body[k].Name.Lexeme]
                              = file.Body[k]

\* A function of a file of the root directory, parsed after the walk came
\* back from a subdirectory, has the name of a function of that subdirectory
C13_Witness ==
    /\ Done /\ ret.err = NoErr
    /\ \E i, j \in DOMAIN ghost.bound :
          /\ i < j
          /\ ghost.bound[i].name = ghost.bound[j].name
          /\ Len(ghost.bound[i].path) = 3
          /\ Len(ghost.bound[j].path) = 2

\* Two files of one directory declare the same function and the build failed
C13_WitnessCollision ==
    /\ Done /\ ret.err = DuplicateSymbol("a")
    /\ ghost.redeclared = <<"a">>
    /\ Len(ghost.origin[1].path) = 3

-----------------------------------------------------------------------------
(* Field accesses: ParseExprFrom on every token sequence of up to           *)
(* MaxAccessLen tokens over two identifiers, a literal, the dot, the        *)
(* parentheses and one operator.                                            *)

AccessTokens ==
    {Token("ID", "a"), Token("ID", "b"), Token("INTEGER_LITERAL", "1"),
     Token("DOT", "."), Token("OPEN_PAREN", "("), Token("CLOSE_PAREN", ")"),
     Token("PLUS", "+")}

AccessInputs == SeqsUpTo(AccessTokens, MaxAccessLen)

InitAccess ==
    /\ lex \in AccessInputs
    /\ scopes = <<>>
    /\ ret = NoRet
    /\ pos = 1
    /\ collector = <<>>
    /\ moduleScope = NilScope
    /\ pc = "idle"
    /\ body = <<>>
    /\ ghost = NoGhost
    /\ input = <<>>

SpecAccess == InitAccess /\ [][NextExpr]_vars

\* The tokens are  name . name . ... . name  with at least one dot, the last
\* name possibly a literal
IsChain(toks) ==
    /\ Len(toks) >= 3
    /\ Len(toks) % 2 = 1
    /\ \A i \in DOMAIN toks :
          IF i % 2 = 0 THEN toks[i].Kind = "DOT"
          ELSE IF i = Len(toks) THEN toks[i].Kind \in {"ID", "INTEGER_LITERAL"}
          ELSE toks[i].Kind = "ID"

IdExprAt(toks, i) ==
    [node |-> "IdExpr", Name |-> [Kind |-> "ID", Lexeme |-> toks[i].Lexeme, Pos |-> i]]

\* The accesses of a chain from its i-th token on, nested to the right
RECURSIVE ChainFrom(_, _)
ChainFrom(toks, i) ==
    IF i = Len(toks)
    THEN IF toks[i].Kind = "ID" THEN IdExprAt(toks, i)
         ELSE [node |-> "LiteralExpr",
               Type |-> [node |-> "BasicType", Kind |-> toks[i].Kind],
               Value |-> toks[i].Lexeme]
    ELSE [node |-> "FieldAccess", Left |-> IdExprAt(toks, i),
          Right |-> ChainFrom(toks, i + 2)]

\* Some FieldAccess of the expression e has a FieldAccess as its right side
RECURSIVE HasNestedAccess(_)
HasNestedAccess(e) ==
    CASE e.node = "FieldAccess" ->
            e.Right.node = "FieldAccess" \/ HasNestedAccess(e.Right)
      [] e.node = "BinaryExpr" -> HasNestedAccess(e.Left) \/ HasNestedAccess(e.Right)
      [] e.node = "UnaryExpr" -> HasNestedAccess(e.Value)
      [] e.node = "FunctionCall" ->
            \E i \in DOMAIN e.Args : HasNestedAccess(e.Args[i])
      [] OTHER -> FALSE

\* C14 as stated: the right side of a FieldAccess is never parsed through
\* field access, so no expression the parser returns holds a FieldAccess
\* whose right side is a FieldAccess.
C14_SinglePair ==
    (pc = "done" /\ ret.err = NoErr) => ~HasNestedAccess(ret.val)

\* C14, amended: FieldAccess parsing consumes one identifier and one dot and
\* takes as right side what parsePrimary returns next; parsePrimary parses
\* an identifier followed by a dot through field access again, so a chained
\* access a.b.c is parsed whole, without error or diagnostic, into
\* FieldAccess nodes nested to the right: FieldAccess(a, FieldAccess(b, c)).
C14_ChainNestsRight ==
    (pc = "done" /\ IsChain(lex)) =>
        /\ ret.err = NoErr
        /\ ret.val = ChainFrom(lex, 1)
        /\ pos = Len(lex) + 1
        /\ collector = <<>>

\* a.b.a was parsed
C14_Witness ==
    /\ pc = "done"
    /\ lex = <<Token("ID", "a"), Token("DOT", "."), Token("ID", "b"),
               Token("DOT", "."), Token("ID", "a")>>
    /\ ret.val.node = "FieldAccess"
    /\ ret.val.Right.node = "FieldAccess"
    /\ ret.val.Right.Right.node = "IdExpr"

-----------------------------------------------------------------------------
(* Properties of the dispatch at file scope *)

\* The file is  fn main() i32 { return 0; }  and nothing else
IsMain ==
    input = [before |-> <<>>, decl |-> "main", edit |-> NoEdit, after |-> <<>>]


\* The kind of the token the parser stands at
CurrentKind == IF pos <= Len(lex) THEN lex[pos].Kind ELSE "EOF"

\* What the minimal program parses to
MainProgram ==
    [node |-> "Program",
     Root |-> [node |-> "Module", IsRoot |-> TRUE, Scope |-> 2,
       Files |-> <<[node |-> "File", Scope |-> 3,
         Body |-> <<[node |-> "FunctionDecl", Scope |-> 4,
           Name |-> [Kind |-> "ID", Lexeme |-> "main", Pos |-> 2],
           Params |-> [node |-> "FieldList",
                       Open |-> [Kind |-> "OPEN_PAREN", Lexeme |-> "(", Pos |-> 3],
                       Fields |-> <<>>,
                       Close |-> [Kind |-> "CLOSE_PAREN", Lexeme |-> ")", Pos |-> 4],
                       IsVariadic |-> FALSE],
           RetType |-> [node |-> "BasicType", Kind |-> "I32_TYPE"],
           Block |-> [node |-> "BlockStmt", OpenCurly |-> 6,
             Statements |-> <<[node |-> "ReturnStmt",
               Return |-> [Kind |-> "RETURN", Lexeme |-> "return", Pos |-> 7],
               Value |-> [node |-> "LiteralExpr",
                          Type |-> [node |-> "BasicType", Kind |-> "INTEGER_LITERAL"],
                          Value |-> "0"]]>>,
             CloseCurly |-> 10]]>>]>>]]

\* The file parse failed in this step
FileFails == pc' \in {"done", "exited"} /\ ret'.err # NoErr /\ ret'.val = Nil

\* C15: every turn of the loop over the declarations of a file dispatches on
\* the current token.  At `fn` it parses a FunctionDecl, at `extern` an
\* ExternDecl, and adds it after the declarations found so far, or the file
\* fails; at the end of input the parse returns the declarations found, in
\* the order of the source; at any other token it records the diagnostic
\* "unexpected non-declaration statement on global scope" at that token,
\* consumes nothing and fails the file with COMPILER_ERROR_FOUND.  The file
\* `fn main() i32 { return 0; }` yields one Module with one File with one
\* FunctionDecl main, no parameters, return type i32, and a body of one
\* ReturnStmt of the literal 0.
C15_Dispatch ==
    [][pc = "nodes" =>
        /\ CurrentKind = "FN" =>
              \/ FileFails
              \/ /\ pc' = "nodes"
                 /\ Len(body') = Len(body) + 1
                 /\ SubSeq(body', 1, Len(body)) = body
                 /\ body'[Len(body')].node = "FunctionDecl"
                 /\ body'[Len(body')].Name.Pos = pos + 1
                 /\ pos' > pos
        /\ CurrentKind = "EXTERN" =>
              \/ FileFails
              \/ /\ pc' = "nodes"
                 /\ Len(body') = Len(body) + 1
                 /\ SubSeq(body', 1, Len(body)) = body
                 /\ body'[Len(body')].node = "ExternDecl"
                 /\ body'[Len(body')].Name.Pos = pos + 1
                 /\ pos' > pos
        /\ CurrentKind = "EOF" =>
              /\ pc' = "done"
              /\ ret'.err = NoErr
              /\ ret'.val.node = "Program"
              /\ ret'.val.Root.node = "Module"
              /\ Len(ret'.val.Root.Files) = 1
              /\ ret'.val.Root.Files[1].Body = body
              /\ \A i, j \in DOMAIN body :
                    i < j => body[i].Name.Pos < body[j].Name.Pos
              /\ collector' = collector
        /\ CurrentKind \notin {"FN", "EXTERN", "EOF"} =>
              /\ pc' = "done"
              /\ ret'.err = COMPILER_ERROR_FOUND
              /\ ret'.val = Nil
              /\ collector' = Append(collector,
                    [Message |-> "unexpected non-declaration statement on global scope",
                     Pos |-> pos, Args |-> <<>>])
              /\ pos' = pos
              /\ body' = body
        /\ (IsMain /\ pc' = "done") => (ret'.err = NoErr /\ ret'.val = MainProgram)
    ]_vars

\* The minimal program was parsed
C15_Witness ==
    /\ IsMain
    /\ pc = "done"
    /\ ret.val = MainProgram

\* A declaration was parsed and then a token that starts none was met
C15_WitnessOther ==
    /\ pc = "done"
    /\ Len(body) >= 1
    /\ CurrentKind \notin {"FN", "EXTERN", "EOF"}
    /\ ret.err = COMPILER_ERROR_FOUND
    /\ Len(collector) = 1
    /\ collector[1].Message = "unexpected non-declaration statement on global scope"

-----------------------------------------------------------------------------
(* Properties of the separators of lists *)

\* Two parameters of the list follow one another with no comma between them
ParamsUnseparated ==
    \E i \in 1..(Len(input.items) - 1) :
        /\ input.items[i].kind = "param"
        /\ input.items[i + 1].kind = "param"
        /\ ~input.items[i].comma

\* C16: a parameter list in which two consecutive parameters are not
\* separated by a comma is rejected: parseFunctionParams returns an error
\* and no parameter list.
C16_CommaSeparated ==
    (pc = "done" /\ ret.op = "parseFunctionParams" /\ ParamsUnseparated) =>
        (ret.err # NoErr /\ ret.val = Nil)

\* The variable statement  a, b int = 1 (a);  with no comma between its two
\* initializers was parsed into two bindings
C16_ExprListUnseparated ==
    /\ pc = "done"
    /\ input = [before |-> <<>>, decl |-> "vars", edit |-> [at |-> 12, word |-> ""],
                after |-> <<>>]
    /\ ret.err = NoErr
    /\ ret.val.Root.Files[1].Body[1].Block.Statements[1].node = "MultiVarStmt"
    /\ Len(ret.val.Root.Files[1].Body[1].Block.Statements[1].Variables) = 2

-----------------------------------------------------------------------------
(* Termination *)

\* The tokens of the file that are still to be read, the end-of-input token
\* included
Remaining == Len(lex) + 1 - pos

\* C17: the parse of a file ends, with a File or with an error (the exit of
\* log.Fatal included): a step of the parser never leaves it in a loop that
\* goes round without end, every turn of every parsing loop (file nodes,
\* extern prototypes, parameters, variable names, block statements, elif
\* branches, expression lists, operator folds) and every call of a parsing
\* function to itself that the step made began at a later token than the one
\* before it, and a turn of parseFileNodes that does not end the parse leaves
\* fewer tokens to read than it found, never fewer than none.
C17_Terminates ==
    [][/\ pc' # "looping"
       /\ ghost'.stalls = <<>>
       /\ Remaining' >= 0
       /\ (pc = "nodes" /\ ~Done') => Remaining' < Remaining]_vars

\* A parse has ended in which the loops over the file's declarations, the
\* statements of a block, the names of a variable statement and its
\* initializers have each gone round
C17_Witness ==
    /\ Done
    /\ ret.err = NoErr
    /\ {"parseFileNodes", "parseBlock", "parseVar", "parseExprList", "parsePrimary"}
          \subseteq {ghost.turns[i] : i \in DOMAIN ghost.turns}
    /\ ghost.stalls = <<>>

\* A parse has ended in which the folds of the logical and the factor
\* operators have gone round and parseUnary has called itself
C17_WitnessFolds ==
    /\ Done
    /\ ret.err = NoErr
    /\ {"parseFileNodes", "parseLogical", "parseFactor", "parseUnary"}
          \subseteq {ghost.turns[i] : i \in DOMAIN ghost.turns}
    /\ ghost.stalls = <<>>

====
